---- MODULE Spec2Model ----
(***************************************************************************)
(* Model of juridisch-advies-streamlit.py: the document ingestion          *)
(* (process_multiple_documents and the extract_content_* functions), the   *)
(* AI-assisted form filling of get_casus_input, and the four-agent         *)
(* pipeline of run_analysis with the final AdviesGenerator call.           *)
(*                                                                         *)
(* Text is a sequence of tokens.  Data that the code slices or scans       *)
(* (model responses, case fields) is one token per character; the fixed    *)
(* parts of an f-string are one token each, as they are only concatenated. *)
(***************************************************************************)
EXTENDS Integers, Sequences, FiniteSets, TLC

VARIABLES
    PDF_SUPPORT,     \* module flag set by the import of fitz (lines 19-24)
    session_state,   \* st.session_state: a mapping whose keys come and go
    uploaded_files,  \* the files held by st.file_uploader
    describe_images, \* the checkbox of the upload section
    ipc,             \* position in process_multiple_documents
    idx,             \* number of files the loop has handled
    all_content,     \* the list all_content of process_multiple_documents
    env_log,         \* what the runtime did for each handled file
    st_errors,       \* number of st.error messages shown by the ingestion
    vision_calls,    \* number of generate_content calls of the ingestion
    escaped,         \* an exception left process_multiple_documents
    casus,           \* the CasusInput handed to run_analysis
    rpc,             \* position in run_analysis
    locals,          \* the agentN_output variables run_analysis has assigned
    call_log,        \* the call_gemini calls of the run, in the order issued
    clock,           \* datetime.now(), in ticks
    attempts,        \* presses of the "Analyseer Documenten" button so far
    last_attempt,    \* what generate_content did at the latest press
    extract_escaped, \* an exception left the handler of that button
    form,            \* the values of the widgets of casus_form
    form_result,     \* what the latest "Start Analyse" submission came to
    runs,            \* number of times main() has entered run_analysis
    stub,            \* which deterministic generative service answers
    example_data     \* example_data of the latest run of get_casus_input

ingestVars == <<uploaded_files, describe_images, ipc, idx, all_content,
                env_log, st_errors, vision_calls, escaped>>

runVars == <<casus, rpc, locals, call_log, clock>>

extractVars == <<attempts, last_attempt, extract_escaped>>

appVars == <<form, form_result, runs, stub, example_data>>

vars == <<PDF_SUPPORT, session_state, ingestVars, runVars, extractVars, appVars>>

(***************************************************************************)
(* Bounds of the model.                                                    *)
(***************************************************************************)
MaxFiles == 3
MaxPages == 2
ShortLen == 3      \* length of a short model answer
Extra == 1         \* by how much a long model answer exceeds a cut-off
MaxProse == 1      \* tokens of prose before and after a JSON answer
MaxAttempts == 2   \* presses of the "Analyseer Documenten" button
MaxText == 3       \* characters typed into a text area of the form
MaxRuns == 2       \* analyses started in one session
MaxStub == 7       \* deterministic generative services told apart
DayTicks == 3      \* ticks of the clock in one day
MaxDays == 1       \* days a session lasts beyond its first
MaxComposes == 2   \* calls of the advice generator on one case
MaxSessionStub == 1   \* deterministic services a session is run with, less one

(***************************************************************************)
(* Generic helpers on mappings and token sequences.                        *)
(***************************************************************************)
Get(d, k, default) == IF k \in DOMAIN d THEN d[k] ELSE default

Put(d, k, v) == [x \in (DOMAIN d) \cup {k} |-> IF x = k THEN v ELSE d[x]]

Truthy(s) == s # <<>>

RECURSIVE Join(_, _)
Join(sep, parts) ==
    IF parts = <<>> THEN <<>>
    ELSE IF Len(parts) = 1 THEN parts[1]
    ELSE parts[1] \o sep \o Join(sep, Tail(parts))

DigitTok == <<"0", "1", "2", "3", "4", "5", "6", "7", "8", "9">>

RECURSIVE Str(_)
Str(n) == IF n < 10 THEN <<DigitTok[n + 1]>>
          ELSE Str(n \div 10) \o <<DigitTok[(n % 10) + 1]>>

LowerTok(t) ==
    CASE t = "PDF"  -> "pdf"
      [] t = "PNG"  -> "png"
      [] t = "JPG"  -> "jpg"
      [] t = "TXT"  -> "txt"
      [] OTHER      -> t

Lower(s) == [i \in 1..Len(s) |-> LowerTok(s[i])]

\* s.split('.')[-1]: what follows the last "." of s, or s when it has none
LastSegment(s) ==
    LET dots == {i \in 1..Len(s) : s[i] = "."}
    IN  IF dots = {} THEN s
        ELSE LET last == CHOOSE i \in dots : \A j \in dots : j <= i
             IN  SubSeq(s, last + 1, Len(s))

(***************************************************************************)
(* The fixed texts of the ingestion.                                       *)
(***************************************************************************)
NL == "\n"
SEP50 == "=x50"
GeenTekst == <<"Geen tekst of visuele elementen gevonden.">>
GeenContent == <<"Geen content gevonden in PDF.">>
PdfMislukt(e) == <<"PDF verwerking mislukt: ", e>>
NietOndersteund(ext) == <<"Bestandstype ">> \o ext \o <<" wordt niet ondersteund.">>
PaginaSource(page_num) == <<"Pagina ">> \o Str(page_num)
PaginaSection(page_num, content) ==
    <<NL, "--- Pagina ">> \o Str(page_num) \o <<" ---", NL>> \o content
DocumentBlock(name, extracted_content) ==
    <<NL, SEP50, NL, "Document: ">> \o name \o <<NL, SEP50, NL>>
        \o extracted_content \o <<NL>>

(***************************************************************************)
(* The runtime's part in handling one file: whether the file can be opened *)
(* and rendered, and what each generate_content call does.                 *)
(***************************************************************************)
Raises == [raise |-> TRUE, text |-> <<>>]
Answers(t) == [raise |-> FALSE, text |-> t]
CallOutcomes == {Raises, Answers(<<>>), Answers(<<"x">>)}
PageOutcomes == {Raises, Answers(<<"x">>)}

FileNames == {<<"a", ".", "pdf">>, <<"b", ".", "PNG">>, <<"c", ".", "txt">>}

IsPdfName(name) == LastSegment(Lower(name)) = <<"pdf">>
IsImageName(name) ==
    LastSegment(Lower(name)) \in {<<"png">>, <<"jpg">>, <<"jpeg">>, <<"webp">>}

SeqsUpTo(S, n) == UNION {[1..k -> S] : k \in 0..n}

NoEnv == [readable |-> TRUE, pages |-> <<>>, direct |-> Raises]

\* the runtime behaviours that matter for a file of this name
EnvsFor(name, pdf_support) ==
    IF IsPdfName(name) THEN
        IF pdf_support THEN
            {[NoEnv EXCEPT !.readable = FALSE]}
            \cup {[NoEnv EXCEPT !.pages = p] : p \in SeqsUpTo(PageOutcomes, MaxPages) \ {<<>>}}
            \cup {[NoEnv EXCEPT !.direct = d] : d \in CallOutcomes}
        ELSE {[NoEnv EXCEPT !.direct = d] : d \in CallOutcomes}
    ELSE IF IsImageName(name) THEN
        {[NoEnv EXCEPT !.readable = FALSE]}
        \cup {[NoEnv EXCEPT !.pages = <<c>>] : c \in CallOutcomes}
    ELSE {NoEnv}

(***************************************************************************)
(* Results of the Python functions: the returned value, or an exception    *)
(* on its way to the caller, with the st.error messages and generative     *)
(* calls made on the way.                                                  *)
(***************************************************************************)
Return(v, errs, calls) == [exc |-> FALSE, val |-> v, errs |-> errs, calls |-> calls]
Raise(errs, calls) == [exc |-> TRUE, val |-> <<>>, errs |-> errs, calls |-> calls]

\* a pdf_to_images that numbers the pages from 0
pdf_to_images_zero_based(env, pdf_support) ==
    IF pdf_support THEN
        IF ~env.readable THEN [exc |-> TRUE, none |-> FALSE, images |-> <<>>]
        ELSE [exc |-> FALSE, none |-> FALSE,
              images |-> [i \in 1..Len(env.pages) |->
                             [img |-> i, page_num |-> i - 1]]]
    ELSE [exc |-> FALSE, none |-> TRUE, images |-> <<>>]

\* pdf_to_images: the page images with their 1-based page numbers, or None
pdf_to_images(env, pdf_support) ==
    IF pdf_support THEN
        IF ~env.readable THEN [exc |-> TRUE, none |-> FALSE, images |-> <<>>]
        ELSE [exc |-> FALSE, none |-> FALSE,
              images |-> [i \in 1..Len(env.pages) |->
                             [img |-> i, page_num |-> (i - 1) + 1]]]
    ELSE [exc |-> FALSE, none |-> TRUE, images |-> <<>>]

\* extract_content_from_pdf_direct: the whole PDF in one multimodal call
extract_content_from_pdf_direct(oc) ==
    IF oc.raise THEN Return(PdfMislukt("e"), 0, 1)
    ELSE IF Truthy(oc.text) THEN Return(oc.text, 0, 1)
    ELSE Return(GeenContent, 0, 1)

\* an extract_content_from_image without its except clause
extract_content_from_image_reraise(oc, source_name) ==
    IF oc.raise THEN Raise(0, 1)
    ELSE IF Truthy(oc.text) THEN Return(oc.text, 0, 1)
    ELSE Return(GeenTekst, 0, 1)

\* extract_content_from_image: one generate_content call on one image
extract_content_from_image(oc, source_name) ==
    IF oc.raise THEN Return(<<>>, 1, 1)
    ELSE IF Truthy(oc.text) THEN Return(oc.text, 0, 1)
    ELSE Return(GeenTekst, 0, 1)

\* a page loop that ends at the first page whose extraction fails
RECURSIVE PageLoop_until_failure(_, _, _, _)
PageLoop_until_failure(images, env, k, acc) ==
    IF k > Len(images) THEN acc
    ELSE
        LET page_num == images[k].page_num
            r == extract_content_from_image(env.pages[images[k].img],
                                            PaginaSource(page_num))
            errs == acc.errs + r.errs
            calls == acc.calls + r.calls
        IN  IF r.exc THEN Raise(errs, calls)
            ELSE IF Truthy(r.val)
                 THEN PageLoop_until_failure(images, env, k + 1,
                               Return(Append(acc.val, PaginaSection(page_num, r.val)),
                                      errs, calls))
                 ELSE Return(acc.val, errs, calls)

\* the page loop of extract_content_from_file (lines 113-118)
RECURSIVE PageLoop(_, _, _, _)
PageLoop(images, env, k, acc) ==
    IF k > Len(images) THEN acc
    ELSE
        LET page_num == images[k].page_num
            r == extract_content_from_image(env.pages[images[k].img],
                                            PaginaSource(page_num))
            errs == acc.errs + r.errs
            calls == acc.calls + r.calls
        IN  IF r.exc THEN Raise(errs, calls)
            ELSE IF Truthy(r.val)
                 THEN PageLoop(images, env, k + 1,
                               Return(Append(acc.val, PaginaSection(page_num, r.val)),
                                      errs, calls))
                 ELSE PageLoop(images, env, k + 1, Return(acc.val, errs, calls))

\* an extract_content_from_file that raises on an extension it does not know
extract_content_from_file_try_strict(name, env, pdf_support) ==
    LET file_extension == LastSegment(Lower(name))
    IN  IF file_extension = <<"pdf">> THEN
            LET r == IF pdf_support THEN pdf_to_images(env, pdf_support)
                     ELSE [exc |-> FALSE, none |-> TRUE, images |-> <<>>]
            IN  IF r.exc THEN Raise(0, 0)
                ELSE IF pdf_support /\ ~r.none /\ r.images # <<>> THEN
                    LET l == PageLoop(r.images, env, 1, Return(<<>>, 0, 0))
                    IN  IF l.exc THEN l
                        ELSE Return(Join(<<NL>>, l.val), l.errs, l.calls)
                ELSE extract_content_from_pdf_direct(env.direct)
        ELSE IF file_extension \in {<<"png">>, <<"jpg">>, <<"jpeg">>, <<"webp">>} THEN
            IF ~env.readable THEN Raise(0, 0)
            ELSE extract_content_from_image(env.pages[1], name)
        ELSE Raise(0, 0)

\* the body of the try block of extract_content_from_file
extract_content_from_file_try(name, env, pdf_support) ==
    LET file_extension == LastSegment(Lower(name))
    IN  IF file_extension = <<"pdf">> THEN
            LET r == IF pdf_support THEN pdf_to_images(env, pdf_support)
                     ELSE [exc |-> FALSE, none |-> TRUE, images |-> <<>>]
            IN  IF r.exc THEN Raise(0, 0)
                ELSE IF pdf_support /\ ~r.none /\ r.images # <<>> THEN
                    LET l == PageLoop(r.images, env, 1, Return(<<>>, 0, 0))
                    IN  IF l.exc THEN l
                        ELSE Return(Join(<<NL>>, l.val), l.errs, l.calls)
                ELSE extract_content_from_pdf_direct(env.direct)
        ELSE IF file_extension \in {<<"png">>, <<"jpg">>, <<"jpeg">>, <<"webp">>} THEN
            IF ~env.readable THEN Raise(0, 0)
            ELSE extract_content_from_image(env.pages[1], name)
        ELSE Return(NietOndersteund(file_extension), 0, 0)

\* extract_content_from_file: the try block with its except clause
extract_content_from_file(name, env, pdf_support) ==
    LET r == extract_content_from_file_try(name, env, pdf_support)
    IN  IF r.exc THEN Return(<<>>, r.errs + 1, r.calls) ELSE r

(***************************************************************************)
(* Initial states: the module has been imported and the session state      *)
(* initialised (lines 227-233).                                            *)
(***************************************************************************)
SessionInit ==
    [k \in {"analyses_completed", "agent_outputs", "final_advice"} |->
        IF k = "analyses_completed" THEN FALSE ELSE <<>>]

\* the "Start Document Verwerking" button has been pressed on a selection of
\* files (lines 700-730): process_multiple_documents is at its loop
IngestInit ==
    /\ uploaded_files \in SeqsUpTo(FileNames, MaxFiles) \ {<<>>}
    /\ describe_images = TRUE
    /\ ipc = "loop"
    /\ idx = 0
    /\ all_content = <<>>
    /\ env_log = <<>>
    /\ st_errors = 0
    /\ vision_calls = 0
    /\ escaped = FALSE

RunIdle ==
    /\ casus = <<>>
    /\ rpc = "form"
    /\ locals = <<>>
    /\ call_log = <<>>
    /\ clock = 0

NoAttempt == [raise |-> FALSE, text |-> <<>>, pre |-> <<>>, object |-> {}, post |-> <<>>]

ExtractIdle ==
    /\ attempts = 0
    /\ last_attempt = NoAttempt
    /\ extract_escaped = FALSE

\* casus_form as it is drawn without defaults (lines 857-936)
EmptyForm ==
    [client_naam |-> <<>>, client_rol |-> <<>>,
     tegenpartij_naam |-> <<>>, tegenpartij_rol |-> <<>>,
     situatie_samenvatting |-> <<>>, doel_client |-> <<>>,
     vorderingen_text |-> <<>>, feitenrelaas |-> <<>>,
     bewijsstukken_text |-> <<>>, include_ocr |-> FALSE]

AppIdle ==
    /\ form = EmptyForm
    /\ form_result = "none"
    /\ runs = 0
    /\ stub = 0
    /\ example_data = <<>>

InitIngest ==
    /\ PDF_SUPPORT \in BOOLEAN
    /\ session_state = SessionInit
    /\ IngestInit
    /\ RunIdle
    /\ ExtractIdle
    /\ AppIdle

(***************************************************************************)
(* Ingestion: process_multiple_documents, called by the "Start Document    *)
(* Verwerking" button, which stores its result as ocr_text (lines 728-731).*)
(***************************************************************************)
\* one iteration of the loop of process_multiple_documents (lines 194-205)
ProcessFile ==
    /\ ipc = "loop"
    /\ idx < Len(uploaded_files)
    /\ LET file == uploaded_files[idx + 1] IN
       \E env \in EnvsFor(file, PDF_SUPPORT) :
          LET r == extract_content_from_file(file, env, PDF_SUPPORT) IN
          /\ env_log' = Append(env_log, env)
          /\ st_errors' = st_errors + r.errs
          /\ vision_calls' = vision_calls + r.calls
          /\ IF r.exc
             THEN /\ escaped' = TRUE
                  /\ ipc' = "idle"
                  /\ UNCHANGED <<idx, all_content>>
             ELSE /\ idx' = idx + 1
                  /\ all_content' =
                        IF Truthy(r.val)
                        THEN Append(all_content, DocumentBlock(file, r.val))
                        ELSE all_content
                  /\ UNCHANGED <<escaped, ipc>>
    /\ UNCHANGED <<PDF_SUPPORT, session_state, uploaded_files, describe_images>>
    /\ UNCHANGED <<runVars, extractVars, appVars>>

\* the loop has ended: join the blocks and store them (lines 207-210, 731)
FinishProcessing ==
    /\ ipc = "loop"
    /\ idx = Len(uploaded_files)
    /\ session_state' = Put(session_state, "ocr_text", Join(<<NL>>, all_content))
    /\ ipc' = "idle"
    /\ UNCHANGED <<PDF_SUPPORT, uploaded_files, describe_images, idx,
                   all_content, env_log, st_errors, vision_calls, escaped>>
    /\ UNCHANGED <<runVars, extractVars, appVars>>

IngestNext == ProcessFile \/ FinishProcessing

SpecIngest == InitIngest /\ [][IngestNext]_vars

(***************************************************************************)
(* Reading a blob back: the document blocks and page sections it shows.    *)
(***************************************************************************)
OccursAt(s, pat, p) ==
    /\ p >= 1
    /\ p + Len(pat) - 1 <= Len(s)
    /\ SubSeq(s, p, p + Len(pat) - 1) = pat

Contains(s, pat) == \E p \in 1..(Len(s) + 1) : OccursAt(s, pat, p)

StartsWith(s, pat) == OccursAt(s, pat, 1)

\* the members of a finite set of integers in ascending order
RECURSIVE Ascending(_)
Ascending(S) ==
    IF S = {} THEN <<>>
    ELSE LET m == CHOOSE x \in S : \A y \in S : x <= y
         IN  <<m>> \o Ascending(S \ {m})

RECURSIVE ParseNat(_)
ParseNat(d) ==
    IF d = <<>> THEN 0
    ELSE LET last == d[Len(d)]
             v == CHOOSE n \in 0..9 : DigitTok[n + 1] = last
         IN  10 * ParseNat(SubSeq(d, 1, Len(d) - 1)) + v

\* the first position at or after p where s holds token t (Len(s)+1 if none)
NextTok(s, t, p) ==
    LET hits == {q \in p..Len(s) : s[q] = t}
    IN  IF hits = {} THEN Len(s) + 1 ELSE CHOOSE q \in hits : \A r \in hits : q <= r

DocHeaderStart == <<NL, SEP50, NL, "Document: ">>

\* the document blocks of a blob, in the order they are written in it
BlocksOf(blob) ==
    LET starts == Ascending({p \in 1..Len(blob) : OccursAt(blob, DocHeaderStart, p)})
    IN  [j \in 1..Len(starts) |->
            LET p == starts[j]
                nameEnd == NextTok(blob, NL, p + 4)
                stop == IF j < Len(starts) THEN starts[j + 1] - 1 ELSE Len(blob)
            IN  [name |-> SubSeq(blob, p + 4, nameEnd - 1),
                 body |-> SubSeq(blob, nameEnd + 3, stop)]]

\* the page sections of a block body: page number and the text that follows
SectionsOf(body) ==
    LET starts == Ascending({q \in 1..Len(body) : OccursAt(body, <<NL, "--- Pagina ">>, q)})
    IN  [j \in 1..Len(starts) |->
            LET q == starts[j]
                numEnd == NextTok(body, " ---", q + 2)
            IN  [num |-> ParseNat(SubSeq(body, q + 2, numEnd - 1)),
                 text |-> SubSeq(body, numEnd + 2, Len(body))]]

Blob == Get(session_state, "ocr_text", <<>>)
Blocks == BlocksOf(Blob)
IngestDone == ipc = "idle"
NFiles == Len(uploaded_files)

\* how file i was handled at runtime
Rasterised(i) ==
    /\ IsPdfName(uploaded_files[i]) /\ PDF_SUPPORT
    /\ env_log[i].readable /\ env_log[i].pages # <<>>
DirectPdf(i) ==
    /\ IsPdfName(uploaded_files[i])
    /\ ~PDF_SUPPORT \/ (env_log[i].readable /\ env_log[i].pages = <<>>)
ImageRead(i) == IsImageName(uploaded_files[i]) /\ env_log[i].readable

\* the text a successful generate_content call stands for
Shown(oc, ifEmpty) == IF oc.text # <<>> THEN oc.text ELSE ifEmpty

\* the renderings of the units of file i whose extraction yielded text
YieldedUnits(i) ==
    IF Rasterised(i) THEN
        {PaginaSection(k, Shown(env_log[i].pages[k], GeenTekst)) :
            k \in {n \in 1..Len(env_log[i].pages) : ~env_log[i].pages[n].raise}}
    ELSE IF ImageRead(i) /\ ~env_log[i].pages[1].raise THEN
        {Shown(env_log[i].pages[1], GeenTekst)}
    ELSE IF DirectPdf(i) /\ ~env_log[i].direct.raise THEN
        {Shown(env_log[i].direct, GeenContent)}
    ELSE {}

\* extraction of file i, or of one of its pages, failed
UnitFailed(i) ==
    \/ IsPdfName(uploaded_files[i]) /\ PDF_SUPPORT /\ ~env_log[i].readable
    \/ IsImageName(uploaded_files[i]) /\ ~env_log[i].readable
    \/ Rasterised(i) /\ \E k \in 1..Len(env_log[i].pages) : env_log[i].pages[k].raise
    \/ ImageRead(i) /\ env_log[i].pages[1].raise
    \/ DirectPdf(i) /\ env_log[i].direct.raise

Increasing(f) == \A a, b \in DOMAIN f : a < b => f[a] < f[b]

(***************************************************************************)
(* C1: when extraction of a file or page fails, no exception leaves the    *)
(* ingestion, the loop goes on to the last file, and every other unit      *)
(* whose extraction yielded text is in the stored blob, in a block of its  *)
(* own file.                                                               *)
(***************************************************************************)
C1_FailureIsolated ==
    (IngestDone /\ \E i \in 1..Len(env_log) : UnitFailed(i)) =>
        /\ ~escaped
        /\ idx = NFiles /\ Len(env_log) = NFiles
        /\ "ocr_text" \in DOMAIN session_state
        /\ LET yielding == {i \in 1..NFiles : YieldedUnits(i) # {}}
           IN  \E f \in [yielding -> 1..Len(Blocks)] :
                  /\ Increasing(f)
                  /\ \A i \in yielding :
                        /\ Blocks[f[i]].name = uploaded_files[i]
                        /\ \A u \in YieldedUnits(i) : Contains(Blocks[f[i]].body, u)

\* a batch of three whose second file failed and whose other two are shown,
\* and a PDF one page of which failed while the other is shown
C1_Witness ==
    /\ IngestDone /\ NFiles = 3
    /\ UnitFailed(2) /\ YieldedUnits(2) = {}
    /\ YieldedUnits(1) # {} /\ YieldedUnits(3) # {}
    /\ Rasterised(1) /\ UnitFailed(1)

(***************************************************************************)
(* C2: a failed unit leaves, at its place in the blob, its delimiter block *)
(* (or page section) with an error message, so that N files give N blocks. *)
(***************************************************************************)
C2_ErrorMarkerInBlob ==
    IngestDone =>
        /\ Len(Blocks) = NFiles
        /\ \A i \in 1..NFiles :
              /\ Blocks[i].name = uploaded_files[i]
              /\ Truthy(SelectSeq(Blocks[i].body, LAMBDA t : t # NL))
              /\ Rasterised(i) => Len(SectionsOf(Blocks[i].body)) = Len(env_log[i].pages)

(***************************************************************************)
(* C3: the blocks of the blob follow the upload order, one block per file  *)
(* at most, and the page sections of a rasterised PDF stand together in    *)
(* its block in ascending order, each headed by the 1-based number of the  *)
(* page whose text it holds.                                               *)
(***************************************************************************)
C3_UploadAndPageOrder ==
    IngestDone =>
        \E f \in [1..Len(Blocks) -> 1..NFiles] :
            /\ Increasing(f)
            /\ \A j \in 1..Len(Blocks) :
                  /\ Blocks[j].name = uploaded_files[f[j]]
                  /\ LET secs == SectionsOf(Blocks[j].body)
                         pages == env_log[f[j]].pages
                     IN  IF Rasterised(f[j]) THEN
                            /\ secs # <<>>
                            /\ \A a \in 1..Len(secs) :
                                  /\ secs[a].num \in 1..Len(pages)
                                  /\ ~pages[secs[a].num].raise
                                  /\ StartsWith(secs[a].text,
                                                Shown(pages[secs[a].num], GeenTekst))
                                  /\ a > 1 => secs[a - 1].num < secs[a].num
                         ELSE secs = <<>>

\* two blocks in the blob, the second one a PDF showing pages 1 and 2
C3_Witness ==
    /\ IngestDone /\ Len(Blocks) = 2 /\ NFiles = 3
    /\ Blocks[1].name # Blocks[2].name
    /\ Len(SectionsOf(Blocks[2].body)) = 2

(***************************************************************************)
(* The agent pipeline.  Case fields and model answers are character        *)
(* sequences; the fixed parts of the prompts are single tokens.            *)
(***************************************************************************)
CAP_AGENT2 == 1000      \* agent1_output[:1000]
CAP_SYNTH == 1500       \* agentN[:1500] and all_analyses.get(...)[:1500]
CAP_BETREFT == 80       \* situatie_samenvatting[:80]

LITE_MODEL == "gemini-2.0-flash-lite"
ADVANCED_MODEL == "gemini-2.0-flash-lite"

Min(a, b) == IF a <= b THEN a ELSE b

\* s[:n]
Slice(s, n) == SubSeq(s, 1, Min(Len(s), n))

\* the CasusInput records the form can hand over
CasusSet ==
    {[client_naam |-> <<"a">>, client_rol |-> <<"k">>,
      tegenpartij_naam |-> <<"b">>, tegenpartij_rol |-> <<"v">>,
      situatie_samenvatting |-> <<"s", "i", "t">>,
      doel_client |-> <<"d">>,
      vorderingen |-> << <<"v", "1">>, <<"v", "2">> >>,
      feitenrelaas |-> <<"f">>,
      bewijsstukken |-> << <<"c">> >>],
     [client_naam |-> <<"n">>, client_rol |-> <<>>,
      tegenpartij_naam |-> <<"g">>, tegenpartij_rol |-> <<>>,
      situatie_samenvatting |-> <<"s">>,
      doel_client |-> <<>>,
      vorderingen |-> << <<"G", "e", "e", "n">> >>,
      feitenrelaas |-> <<>>,
      bewijsstukken |-> << <<"G", "e", "e", "n">> >>]}

CommaJoin(list) == Join(<<",", " ">>, list)

\* what generate_content does in call_gemini: it raises, it answers without
\* parts, or it answers with a text
ErrorTag == <<"E", "R", "R", "O", "R", ":", " ">>
GeenResponse ==
    ErrorTag \o <<"G", "e", "e", "n", " ", "r", "e", "s", "p", "o", "n", "s", "e",
                  " ", "o", "n", "t", "v", "a", "n", "g", "e", "n">>
StageTag == <<"P", "Q", "R", "S", "T">>
AnswerText(stage, n) ==
    [i \in 1..n |-> IF i = 1 THEN StageTag[stage]
                    ELSE DigitTok[((i + (i \div 7)) % 10) + 1]]
\* answer lengths around the cut-offs that apply to the stage's output
AnswerLens(stage) ==
    IF stage = 1
    THEN {ShortLen, CAP_AGENT2, CAP_AGENT2 + Extra, CAP_SYNTH, CAP_SYNTH + Extra}
    ELSE IF stage = 5 THEN {ShortLen}
    ELSE {ShortLen, CAP_SYNTH, CAP_SYNTH + Extra}
GeminiOutcomes(stage) ==
    {[kind |-> "raise", text |-> <<"b", "o", "o", "m">>],
     [kind |-> "noparts", text |-> <<>>]}
    \cup {[kind |-> "text", text |-> AnswerText(stage, n)] : n \in AnswerLens(stage)}

\* a call_gemini whose exception reaches the caller
call_gemini_noexcept(system_prompt, user_prompt, model_name, oc) ==
    LET full_prompt == <<"System: ">> \o system_prompt \o <<"\n\nUser: ">> \o user_prompt
    IN  IF oc.kind = "raise"
        THEN [exc |-> TRUE, val |-> <<>>, prompt |-> full_prompt, model |-> model_name]
        ELSE IF oc.kind = "noparts"
        THEN [exc |-> FALSE, val |-> GeenResponse, prompt |-> full_prompt, model |-> model_name]
        ELSE [exc |-> FALSE, val |-> oc.text, prompt |-> full_prompt, model |-> model_name]

\* call_gemini: the text of the response, or an "ERROR: ..." text
call_gemini(system_prompt, user_prompt, model_name, oc) ==
    LET full_prompt == <<"System: ">> \o system_prompt \o <<"\n\nUser: ">> \o user_prompt
    IN  IF oc.kind = "raise"
        THEN [exc |-> FALSE, val |-> ErrorTag \o oc.text,
              prompt |-> full_prompt, model |-> model_name]
        ELSE IF oc.kind = "noparts"
        THEN [exc |-> FALSE, val |-> GeenResponse, prompt |-> full_prompt, model |-> model_name]
        ELSE [exc |-> FALSE, val |-> oc.text, prompt |-> full_prompt, model |-> model_name]

\* the fixed parts of the prompts that stand next to an embedded stage output
A2_Agent1Label == "\n\nAGENT 1 ANALYSE (pro-client):\n"
A2_Tail == "...\n\nStructureer je tegenanalyse volgens deze 5 pijlers: [...] Wees meedogenloos kritisch."
A4_Agent1Label == "\n\nAGENT 1 (Pro-client):\n"
A4_Agent2Label == "...\n\nAGENT 2 (Risico's):\n"
A4_Agent3Label == "...\n\nAGENT 3 (Procedureel):\n"
A4_Tail == "...\n\nSYNTHESISEER: [...] Wees evenwichtig en realistisch in je beoordeling."
G_Agent1Label == "\n\nAGENT ANALYSES (gebruik deze info om de template in te vullen):\nAgent 1 (Pro-client argumenten): "
G_Agent2Label == "\nAgent 2 (Risico's): "
G_Agent3Label == "\nAgent 3 (Procedurele kansen): "
G_Agent4Label == "\nAgent 4 (Synthese): "
G_Template == "\n\nVEREISTE OUTPUT (volg EXACT deze template):\n\n**DEEL B: CONCEPT ADVIESNOTA / STRATEGISCH MEMO** [...]\n**DOSSIER:** "

\* Agent1_AnalytischeJurist.analyze: the user prompt
Agent1_prompt(c) ==
    <<"Analyseer deze casus en bouw het sterkste pleidooi voor onze client:\n\nCLIENT: ">>
    \o c.client_naam \o <<" (">> \o c.client_rol
    \o <<")\nTEGENPARTIJ: ">> \o c.tegenpartij_naam \o <<" (">> \o c.tegenpartij_rol
    \o <<")\n\nSITUATIE: ">> \o c.situatie_samenvatting
    \o <<"\n\nDOEL CLIENT: ">> \o c.doel_client
    \o <<"\n\nVORDERINGEN TEGENPARTIJ: ">> \o CommaJoin(c.vorderingen)
    \o <<"\n\nFEITEN: ">> \o c.feitenrelaas
    \o <<"\n\nBEWIJSSTUKKEN: ">> \o CommaJoin(c.bewijsstukken)
    \o <<"\n\nStructureer je analyse volgens deze 5 pijlers: [...] Wees concreet en verwijs naar Belgisch recht.">>

\* an Agent 2 prompt that embeds the first 1500 characters
Agent2_prompt_cap1500(c, agent1_output) ==
    <<"Analyseer deze casus TEGEN onze client. Je hebt ook de analyse van Agent 1 gezien:\n\nCASUS INFO:\nClient: ">>
    \o c.client_naam \o <<" (">> \o c.client_rol
    \o <<")\nTegenpartij: ">> \o c.tegenpartij_naam \o <<" (">> \o c.tegenpartij_rol
    \o <<")\nSituatie: ">> \o c.situatie_samenvatting
    \o <<"\nVorderingen: ">> \o CommaJoin(c.vorderingen)
    \o <<A2_Agent1Label>> \o Slice(agent1_output, CAP_SYNTH) \o <<A2_Tail>>

\* an Agent 2 prompt that leaves an "ERROR: ..." analysis out
Agent2_prompt_skip_error(c, agent1_output) ==
    <<"Analyseer deze casus TEGEN onze client. Je hebt ook de analyse van Agent 1 gezien:\n\nCASUS INFO:\nClient: ">>
    \o c.client_naam \o <<" (">> \o c.client_rol
    \o <<")\nTegenpartij: ">> \o c.tegenpartij_naam \o <<" (">> \o c.tegenpartij_rol
    \o <<")\nSituatie: ">> \o c.situatie_samenvatting
    \o <<"\nVorderingen: ">> \o CommaJoin(c.vorderingen)
    \o <<A2_Agent1Label>>
    \o (IF Slice(agent1_output, Len(ErrorTag)) = ErrorTag
        THEN <<>> ELSE Slice(agent1_output, CAP_AGENT2))
    \o <<A2_Tail>>

\* Agent2_AdvocaatDuivel.analyze: the user prompt
Agent2_prompt(c, agent1_output) ==
    <<"Analyseer deze casus TEGEN onze client. Je hebt ook de analyse van Agent 1 gezien:\n\nCASUS INFO:\nClient: ">>
    \o c.client_naam \o <<" (">> \o c.client_rol
    \o <<")\nTegenpartij: ">> \o c.tegenpartij_naam \o <<" (">> \o c.tegenpartij_rol
    \o <<")\nSituatie: ">> \o c.situatie_samenvatting
    \o <<"\nVorderingen: ">> \o CommaJoin(c.vorderingen)
    \o <<A2_Agent1Label>> \o Slice(agent1_output, CAP_AGENT2) \o <<A2_Tail>>

\* Agent3_ProcedureleStrateeg.analyze: the user prompt
Agent3_prompt(c) ==
    <<"Analyseer procedurele knock-out mogelijkheden voor deze casus:\n\nPARTIJEN: ">>
    \o c.client_naam \o <<" vs ">> \o c.tegenpartij_naam
    \o <<"\nVORDERINGEN: ">> \o CommaJoin(c.vorderingen)
    \o <<"\nFEITEN: ">> \o c.feitenrelaas
    \o <<"\nBEWIJSSTUKKEN: ">> \o CommaJoin(c.bewijsstukken)
    \o <<"\n\nAnalyseer systematisch: [...] geef potentie aan (HOOG/GEMIDDELD/LAAG) met juridische basis.">>

\* an Agent 4 prompt that embeds the procedural analysis whole
Agent4_prompt_uncut3(c, agent1, agent2, agent3) ==
    <<"Integreer de analyses van alle agenten tot een coherente strategie:\n\nCASUS: ">>
    \o c.client_naam \o <<" vs ">> \o c.tegenpartij_naam
    \o <<"\nDOEL: ">> \o c.doel_client
    \o <<A4_Agent1Label>> \o Slice(agent1, CAP_SYNTH)
    \o <<A4_Agent2Label>> \o Slice(agent2, CAP_SYNTH)
    \o <<A4_Agent3Label>> \o agent3
    \o <<A4_Tail>>

\* Agent4_Synthesizer.synthesize: the user prompt
Agent4_prompt(c, agent1, agent2, agent3) ==
    <<"Integreer de analyses van alle agenten tot een coherente strategie:\n\nCASUS: ">>
    \o c.client_naam \o <<" vs ">> \o c.tegenpartij_naam
    \o <<"\nDOEL: ">> \o c.doel_client
    \o <<A4_Agent1Label>> \o Slice(agent1, CAP_SYNTH)
    \o <<A4_Agent2Label>> \o Slice(agent2, CAP_SYNTH)
    \o <<A4_Agent3Label>> \o Slice(agent3, CAP_SYNTH)
    \o <<A4_Tail>>

\* strftime of datetime.now(): the file-name stamp, which tells the ticks
\* apart, and the date of the memo, which tells the days apart
Stamp(t) == <<"%Y%m%d_%H%M%S=">> \o Str(t)
Datum(t) == <<"%d/%m/%Y=">> \o Str(t \div DayTicks)

\* AdviesGenerator.genereer_uitgebreid_advies: the user prompt; the date is
\* read from the clock, the timestamp argument is not used
Advies_prompt(c, all_analyses, timestamp, now) ==
    <<"Genereer een juridisch advies EXACT volgens deze template. Gebruik de analyses van de agents om de template in te vullen:\n\nCASUS INFO:\n- Client: ">>
    \o c.client_naam \o <<" (">> \o c.client_rol
    \o <<")\n- Tegenpartij: ">> \o c.tegenpartij_naam \o <<" (">> \o c.tegenpartij_rol
    \o <<")\n- Situatie: ">> \o c.situatie_samenvatting
    \o <<"\n- Doel: ">> \o c.doel_client
    \o <<"\n- Vorderingen: ">> \o CommaJoin(c.vorderingen)
    \o <<G_Agent1Label>> \o Slice(Get(all_analyses, "sterke_punten", <<>>), CAP_SYNTH)
    \o <<G_Agent2Label>> \o Slice(Get(all_analyses, "risicos", <<>>), CAP_SYNTH)
    \o <<G_Agent3Label>> \o Slice(Get(all_analyses, "procedurele_kansen", <<>>), CAP_SYNTH)
    \o <<G_Agent4Label>> \o Slice(Get(all_analyses, "synthese", <<>>), CAP_SYNTH)
    \o <<G_Template>> \o c.client_naam
    \o <<"\n**DATUM:** ">> \o Datum(now)
    \o <<"\n**BETREFT:** Analyse rechtspositie en strategische opties inzake ">>
    \o Slice(c.situatie_samenvatting, CAP_BETREFT)
    \o <<"...\n\n### 1. KERN VAN DE ZAAK EN ADVIESVRAAG\n*   **Conflict:** [Zeer korte samenvatting van het geschil tussen ">>
    \o c.client_naam \o <<" en ">> \o c.tegenpartij_naam
    \o <<"] [...] BELANGRIJK: Volg deze template EXACT.">>

Agent1_system == <<"Je bent een ervaren Belgische advocaat [...]">>
Agent2_system == <<"Je bent de beste advocaat van de tegenpartij [...]">>
Agent3_system == <<"Je bent een expert in Belgisch procesrecht [...]">>
Agent4_system == <<"Je bent de senior partner [...]">>
Advies_system == <<"Je bent een senior juridisch adviseur [...]">>

\* the order of the steps of run_analysis, swapped for agents 2 and 3
NextStep_swapped(pc) ==
    CASE pc = "agent1" -> "agent3"
      [] pc = "agent3" -> "agent2"
      [] pc = "agent2" -> "agent4"
      [] pc = "agent4" -> "advice"
      [] pc = "advice" -> "done"

\* the order of the steps of run_analysis
NextStep(pc) ==
    CASE pc = "agent1" -> "agent2"
      [] pc = "agent2" -> "agent3"
      [] pc = "agent3" -> "agent4"
      [] pc = "agent4" -> "advice"
      [] pc = "advice" -> "done"

IngestIdle ==
    /\ uploaded_files = <<>>
    /\ describe_images = TRUE
    /\ ipc = "idle"
    /\ idx = 0
    /\ all_content = <<>>
    /\ env_log = <<>>
    /\ st_errors = 0
    /\ vision_calls = 0
    /\ escaped = FALSE

\* main() has a CasusInput from the form and enters run_analysis
InitRun ==
    /\ PDF_SUPPORT = TRUE
    /\ session_state = SessionInit
    /\ IngestIdle
    /\ casus \in CasusSet
    /\ rpc = "agent1"
    /\ locals = <<>>
    /\ call_log = <<>>
    /\ clock = 0
    /\ ExtractIdle
    /\ AppIdle

\* one agent block of run_analysis: the call, then the output is kept in the
\* local variable and in st.session_state.agent_outputs
AgentStep(pc, stage, key, var, system, user, model) ==
    /\ rpc = pc
    /\ \E oc \in GeminiOutcomes(stage) :
          LET r == call_gemini(system, user, model, oc) IN
          /\ call_log' = Append(call_log,
                [stage |-> stage, prompt |-> r.prompt, model |-> r.model,
                 outcome |-> oc.kind, avail |-> DOMAIN locals])
          /\ clock' = clock + 1
          /\ IF r.exc
             THEN /\ rpc' = "stopped"
                  /\ UNCHANGED <<locals, session_state>>
             ELSE /\ rpc' = NextStep(pc)
                  /\ locals' = Put(locals, var, r.val)
                  /\ session_state' =
                        Put(session_state, "agent_outputs",
                            Put(session_state["agent_outputs"], key, r.val))
    /\ UNCHANGED <<PDF_SUPPORT, casus, ingestVars, extractVars, appVars>>

RunAgent1 ==
    AgentStep("agent1", 1, "agent1", "agent1_output",
              Agent1_system, Agent1_prompt(casus), LITE_MODEL)

RunAgent2 ==
    /\ "agent1_output" \in DOMAIN locals
    /\ AgentStep("agent2", 2, "agent2", "agent2_output",
                 Agent2_system, Agent2_prompt(casus, locals["agent1_output"]),
                 LITE_MODEL)

RunAgent3 ==
    AgentStep("agent3", 3, "agent3", "agent3_output",
              Agent3_system, Agent3_prompt(casus), LITE_MODEL)

RunAgent4 ==
    /\ {"agent1_output", "agent2_output", "agent3_output"} \subseteq DOMAIN locals
    /\ AgentStep("agent4", 4, "agent4", "agent4_output",
                 Agent4_system,
                 Agent4_prompt(casus, locals["agent1_output"],
                               locals["agent2_output"], locals["agent3_output"]),
                 ADVANCED_MODEL)

\* lines 1039-1063: the timestamp, the advice call, the results in the session
GenerateAdvice ==
    /\ rpc = "advice"
    /\ {"agent1_output", "agent2_output", "agent3_output", "agent4_output"}
          \subseteq DOMAIN locals
    /\ \E oc \in GeminiOutcomes(5) :
          LET timestamp == Stamp(clock)
              synthese_data ==
                  [k \in {"synthese", "procedurele_kansen", "sterke_punten", "risicos"} |->
                      CASE k = "synthese" -> locals["agent4_output"]
                        [] k = "procedurele_kansen" -> locals["agent3_output"]
                        [] k = "sterke_punten" -> locals["agent1_output"]
                        [] k = "risicos" -> locals["agent2_output"]]
              r == call_gemini(Advies_system,
                               Advies_prompt(casus, synthese_data, timestamp, clock),
                               ADVANCED_MODEL, oc)
          IN
          /\ call_log' = Append(call_log,
                [stage |-> 5, prompt |-> r.prompt, model |-> r.model,
                 outcome |-> oc.kind, avail |-> DOMAIN locals])
          /\ clock' = clock + 1
          /\ IF r.exc
             THEN /\ rpc' = "stopped"
                  /\ UNCHANGED session_state
             ELSE /\ rpc' = NextStep("advice")
                  /\ session_state' =
                        Put(Put(Put(Put(session_state, "final_advice", r.val),
                                    "casus_info", casus),
                                "timestamp", timestamp),
                            "analyses_completed", TRUE)
    /\ UNCHANGED <<PDF_SUPPORT, casus, locals, ingestVars, extractVars, appVars>>

RunNext == RunAgent1 \/ RunAgent2 \/ RunAgent3 \/ RunAgent4 \/ GenerateAdvice

SpecRun == InitRun /\ [][RunNext]_vars

\* the scheduling of run_analysis: a synchronous script, every step is taken
SpecRunFair == SpecRun /\ WF_vars(RunNext)

(***************************************************************************)
(* Reading the calls of a run.                                             *)
(***************************************************************************)
\* what a prompt holds between two of its fixed parts
Between(prompt, startTok, endTok) ==
    LET p == NextTok(prompt, startTok, 1)
        q == NextTok(prompt, endTok, p + 1)
    IN  SubSeq(prompt, p + 1, q - 1)

OutputVar == <<"agent1_output", "agent2_output", "agent3_output", "agent4_output">>
StepOf == <<"agent1", "agent2", "agent3", "agent4", "advice", "done">>

\* the calls of the run made for a stage
CallsOf(stage) == {k \in 1..Len(call_log) : call_log[k].stage = stage}

\* the first n characters of s, n at most its length
FirstChars(s, n) == [i \in 1..(IF Len(s) < n THEN Len(s) ELSE n) |-> s[i]]

Failed(k) == call_log[k].outcome \in {"raise", "noparts"}

\* the output the run keeps for its k-th call
KeptOutput(k) ==
    IF k <= 4 THEN session_state["agent_outputs"][StepOf[k]]
    ELSE session_state["final_advice"]

(***************************************************************************)
(* C4: the calls of a run are issued in the order 1, 2, 3, 4, composer,    *)
(* none twice, each when the outputs of all earlier stages are there, and  *)
(* a completed run has issued all five.                                    *)
(***************************************************************************)
C4_FixedOrderOnce ==
    /\ Len(call_log) <= 5
    /\ \A k \in 1..Len(call_log) :
          /\ call_log[k].stage = k
          /\ call_log[k].avail = {OutputVar[j] : j \in 1..(k - 1)}
    /\ rpc = StepOf[Len(call_log) + 1]
    /\ rpc = "done" => Len(call_log) = 5

C4_Witness == rpc = "done" /\ Len(call_log) = 5 /\ session_state["analyses_completed"]

(***************************************************************************)
(* C5: the stage-2 prompt holds, of the stage-1 output s, exactly its      *)
(* first min(len(s), 1000) characters.                                     *)
(***************************************************************************)
C5_Stage2Cap ==
    \A k \in CallsOf(2) :
        LET s == locals["agent1_output"]
            e == Between(call_log[k].prompt, A2_Agent1Label, A2_Tail)
        IN  /\ e = FirstChars(s, 1000)
            /\ Len(e) <= 1000
            /\ Len(s) >= 1000 => Len(e) = 1000
            /\ Len(s) < 1000 => e = s

C5_Witness ==
    /\ CallsOf(2) # {}
    /\ Len(locals["agent1_output"]) > 1000
    /\ Len(Between(call_log[2].prompt, A2_Agent1Label, A2_Tail)) = 1000

(***************************************************************************)
(* C6: the stage-4 prompt (of stages 1-3) and the composer prompt (of      *)
(* stages 1-4) hold of each earlier output s exactly its first             *)
(* min(len(s), 1500) characters.                                           *)
(***************************************************************************)
C6_SynthCap ==
    /\ \A k \in CallsOf(4) :
          LET pr == call_log[k].prompt IN
          /\ Between(pr, A4_Agent1Label, A4_Agent2Label) = FirstChars(locals["agent1_output"], 1500)
          /\ Between(pr, A4_Agent2Label, A4_Agent3Label) = FirstChars(locals["agent2_output"], 1500)
          /\ Between(pr, A4_Agent3Label, A4_Tail) = FirstChars(locals["agent3_output"], 1500)
    /\ \A k \in CallsOf(5) :
          LET pr == call_log[k].prompt IN
          /\ Between(pr, G_Agent1Label, G_Agent2Label) = FirstChars(locals["agent1_output"], 1500)
          /\ Between(pr, G_Agent2Label, G_Agent3Label) = FirstChars(locals["agent2_output"], 1500)
          /\ Between(pr, G_Agent3Label, G_Agent4Label) = FirstChars(locals["agent3_output"], 1500)
          /\ Between(pr, G_Agent4Label, G_Template) = FirstChars(locals["agent4_output"], 1500)

C6_Witness ==
    /\ CallsOf(5) # {}
    /\ \A j \in 1..4 : Len(locals[OutputVar[j]]) > 1500
    /\ Len(Between(call_log[4].prompt, A4_Agent3Label, A4_Tail)) = 1500
    /\ Len(Between(call_log[5].prompt, G_Agent4Label, G_Template)) = 1500

(***************************************************************************)
(* C7: the stage-2 prompt contains the truncated stage-1 output and the    *)
(* stage-4 prompt those of stages 1, 2 and 3, an "ERROR: ..." output       *)
(* included, while the prompts of stages 1 and 3 show nothing of any       *)
(* stage's output.                                                         *)
(***************************************************************************)
C7_ContextPropagation ==
    /\ \A k \in CallsOf(2) :
          LET pr == call_log[k].prompt IN
          OccursAt(pr, FirstChars(locals["agent1_output"], 1000),
                   NextTok(pr, A2_Agent1Label, 1) + 1)
    /\ \A k \in CallsOf(4) :
          LET pr == call_log[k].prompt IN
          /\ \A j \in 1..3 : locals[OutputVar[j]] # <<>>
          /\ OccursAt(pr, FirstChars(locals["agent1_output"], 1500),
                      NextTok(pr, A4_Agent1Label, 1) + 1)
          /\ OccursAt(pr, FirstChars(locals["agent2_output"], 1500),
                      NextTok(pr, A4_Agent2Label, 1) + 1)
          /\ OccursAt(pr, FirstChars(locals["agent3_output"], 1500),
                      NextTok(pr, A4_Agent3Label, 1) + 1)
    /\ \A k \in CallsOf(1) \cup CallsOf(3) : \A v \in DOMAIN locals :
          \A i \in 1..Len(call_log[k].prompt) : call_log[k].prompt[i] # locals[v][1]

\* stage 1 failed and its error text went into the prompts of stages 2 and 4
C7_Witness ==
    /\ CallsOf(4) # {} /\ CallsOf(3) # {}
    /\ Failed(1)
    /\ FirstChars(locals["agent1_output"], 7) = ErrorTag
    /\ OccursAt(call_log[2].prompt, ErrorTag,
                NextTok(call_log[2].prompt, A2_Agent1Label, 1) + 1)

(***************************************************************************)
(* C8: a failed generative call raises nothing: its stage gets a text      *)
(* beginning with "ERROR:", the run goes on with the next step and ends    *)
(* completed.                                                              *)
(***************************************************************************)
C8_Recovered ==
    /\ rpc # "stopped"
    /\ rpc = StepOf[Len(call_log) + 1]
    /\ \A k \in 1..Len(call_log) :
          Failed(k) => FirstChars(KeptOutput(k), 6) = <<"E", "R", "R", "O", "R", ":">>

C8_FailureStillCompletes ==
    /\ []C8_Recovered
    /\ (\E k \in 1..Len(call_log) : Failed(k)) ~> (rpc = "done" /\ session_state["analyses_completed"])

\* a completed run whose first call raised and whose composer had no parts
C8_Witness ==
    /\ rpc = "done" /\ session_state["analyses_completed"]
    /\ call_log[1].outcome = "raise"
    /\ call_log[5].outcome = "noparts"
    /\ FirstChars(session_state["final_advice"], 7) = ErrorTag

(***************************************************************************)
(* The AI-assisted form filling of get_casus_input (lines 799-855): one    *)
(* generate_content call on the ingested text, a search for a brace-       *)
(* delimited part of the answer and json.loads of that part.               *)
(* JSON text is a token sequence: the punctuation of JSON is one token per *)
(* character, a word without punctuation is one token.                     *)
(***************************************************************************)
QUOTE == "\""

\* re.search(r'\{.*\}', text, re.DOTALL) taken lazily: up to the first "}"
re_search_lazy(text) ==
    LET opens == {i \in 1..Len(text) : text[i] = "{"}
        p == IF opens = {} THEN 0 ELSE CHOOSE i \in opens : \A j \in opens : i <= j
        closes == {i \in 1..Len(text) : text[i] = "}" /\ i > p}
    IN  IF opens = {} \/ closes = {} THEN [found |-> FALSE, match |-> <<>>]
        ELSE LET q == CHOOSE i \in closes : \A j \in closes : i <= j
             IN  [found |-> TRUE, match |-> SubSeq(text, p, q)]

\* re.search(r'\{.*\}', text, re.DOTALL): from the first "{" to the last "}"
\* that follows it
re_search(text) ==
    LET opens == {i \in 1..Len(text) : text[i] = "{"}
        p == IF opens = {} THEN 0 ELSE CHOOSE i \in opens : \A j \in opens : i <= j
        closes == {i \in 1..Len(text) : text[i] = "}" /\ i > p}
    IN  IF opens = {} \/ closes = {} THEN [found |-> FALSE, match |-> <<>>]
        ELSE LET q == CHOOSE i \in closes : \A j \in closes : j <= i
             IN  [found |-> TRUE, match |-> SubSeq(text, p, q)]

\* json.loads: results of the parsing functions
JFail == [ok |-> FALSE, val |-> <<>>, next |-> 0]
JOk(v, n) == [ok |-> TRUE, val |-> v, next |-> n]
JStr(chars) == [t |-> "str", v |-> chars]
JArr(items) == [t |-> "arr", v |-> items]
JObj(mapping) == [t |-> "obj", v |-> mapping]

\* the first position at or after i that holds no white space
RECURSIVE SkipWs(_, _)
SkipWs(t, i) == IF i <= Len(t) /\ t[i] = " " THEN SkipWs(t, i + 1) ELSE i

At(t, i, tok) == i <= Len(t) /\ t[i] = tok

\* a string starting with the quote at position i
ParseString(t, i) ==
    IF ~At(t, i, QUOTE) THEN JFail
    ELSE LET j == NextTok(t, QUOTE, i + 1)
         IN  IF j > Len(t) THEN JFail ELSE JOk(SubSeq(t, i + 1, j - 1), j + 1)

RECURSIVE ParseValue(_, _), ParseItems(_, _, _), ParseMembers(_, _, _)

\* a JSON value starting at or after position i
ParseValue(t, i) ==
    LET a == SkipWs(t, i) IN
    IF At(t, a, QUOTE) THEN
        LET r == ParseString(t, a)
        IN  IF r.ok THEN JOk(JStr(r.val), r.next) ELSE JFail
    ELSE IF At(t, a, "[") THEN
        IF At(t, SkipWs(t, a + 1), "]") THEN JOk(JArr(<<>>), SkipWs(t, a + 1) + 1)
        ELSE ParseItems(t, a + 1, <<>>)
    ELSE IF At(t, a, "{") THEN
        IF At(t, SkipWs(t, a + 1), "}") THEN JOk(JObj(<<>>), SkipWs(t, a + 1) + 1)
        ELSE ParseMembers(t, a + 1, <<>>)
    ELSE JFail

\* the items of an array, the next one starting at or after position i
ParseItems(t, i, acc) ==
    LET r == ParseValue(t, i) IN
    IF ~r.ok THEN JFail
    ELSE LET b == SkipWs(t, r.next)
             items == Append(acc, r.val)
         IN  IF At(t, b, ",") THEN ParseItems(t, b + 1, items)
             ELSE IF At(t, b, "]") THEN JOk(JArr(items), b + 1)
             ELSE JFail

\* the members of an object, the next one starting at or after position i;
\* a key that comes twice keeps its last value
ParseMembers(t, i, acc) ==
    LET k == ParseString(t, SkipWs(t, i)) IN
    IF ~k.ok THEN JFail
    ELSE LET c == SkipWs(t, k.next) IN
         IF ~At(t, c, ":") THEN JFail
         ELSE LET r == ParseValue(t, c + 1) IN
              IF ~r.ok THEN JFail
              ELSE LET b == SkipWs(t, r.next)
                       members == Put(acc, k.val, r.val)
                   IN  IF At(t, b, ",") THEN ParseMembers(t, b + 1, members)
                       ELSE IF At(t, b, "}") THEN JOk(JObj(members), b + 1)
                       ELSE JFail

\* json.loads(text): the value, or an exception
json_loads(text) ==
    LET r == ParseValue(text, 1) IN
    IF r.ok /\ SkipWs(text, r.next) = Len(text) + 1
    THEN [exc |-> FALSE, val |-> r.val.v]
    ELSE [exc |-> TRUE, val |-> <<>>]

(***************************************************************************)
(* The answers of the model.  An object is written down as a sequence of   *)
(* members <<key, value>>; ObjectText is its JSON text.                    *)
(***************************************************************************)
RECURSIVE ValueText(_), MembersText(_), ItemsText(_)
ValueText(v) ==
    IF v.t = "str" THEN <<QUOTE>> \o v.v \o <<QUOTE>>
    ELSE IF v.t = "arr" THEN <<"[">> \o ItemsText(v.v) \o <<"]">>
    ELSE <<"{">> \o MembersText(v.v) \o <<"}">>
ItemsText(items) ==
    IF items = <<>> THEN <<>>
    ELSE IF Len(items) = 1 THEN ValueText(items[1])
    ELSE ValueText(items[1]) \o <<",", " ">> \o ItemsText(Tail(items))
MembersText(ms) ==
    IF ms = <<>> THEN <<>>
    ELSE LET one == <<QUOTE>> \o ms[1][1] \o <<QUOTE, ":", " ">> \o ValueText(ms[1][2])
         IN  IF Len(ms) = 1 THEN one
             ELSE one \o <<",", " ">> \o MembersText(Tail(ms))
ObjectText(ms) == <<"{">> \o MembersText(ms) \o <<"}">>

\* the mapping an object stands for
RECURSIVE ValueOf(_)
ValueOf(v) ==
    IF v.t = "str" THEN v
    ELSE IF v.t = "arr" THEN JArr([i \in 1..Len(v.v) |-> ValueOf(v.v[i])])
    ELSE JObj([k \in {v.v[i][1] : i \in 1..Len(v.v)} |->
                 ValueOf(v.v[CHOOSE i \in 1..Len(v.v) : v.v[i][1] = k][2])])
MappingOf(ms) == ValueOf([t |-> "obj", v |-> ms]).v

Objects ==
    {<<>>,
     << <<<<"client_naam">>, JStr(<<"A">>)>> >>,
     << <<<<"client_naam">>, JStr(<<"B", " ", "}">>)>>,
        <<<<"vorderingen">>, JArr(<<JStr(<<"v1">>), JStr(<<"v2">>)>>)>> >>,
     << <<<<"tegenpartij_naam">>, JStr(<<>>)>>,
        <<<<"visuele_elementen">>,
          [t |-> "obj", v |-> << <<<<"foto">>, JStr(<<"x">>)>> >>]>> >>}

\* answers that hold no JSON object: a missing brace, colon or quote
Malformed ==
    {<<"{", QUOTE, "client_naam", QUOTE, ":", QUOTE, "A", QUOTE>>,
     <<"{", QUOTE, "client_naam", QUOTE, QUOTE, "A", QUOTE, "}">>,
     <<"{", "client_naam", ":", QUOTE, "A", QUOTE, "}">>,
     <<"{", QUOTE, "client_naam", QUOTE, ":", QUOTE, "A", QUOTE, ",", "}">>,
     <<"geen", " ", "json">>,
     <<>>}

Prose == {pr \in SeqsUpTo({"p", "{", "}"}, MaxProse) : ~Contains(pr, <<"{", "}">>)}

ExtractCalls ==
    {[NoAttempt EXCEPT !.raise = TRUE]}
    \cup {[NoAttempt EXCEPT !.text = pre \o ObjectText(ms) \o post,
                            !.pre = pre, !.object = {ms}, !.post = post] :
            pre \in Prose, ms \in Objects, post \in Prose}
    \cup {[NoAttempt EXCEPT !.text = bad] : bad \in Malformed}

(***************************************************************************)
(* The defaults of casus_form (lines 776-796 and 855-936).  A Python value *)
(* is written as the value of a JSON text is: a text, a list, a mapping.   *)
(* A widget returns what the form holds; the form holds its defaults when  *)
(* it is drawn with them.                                                   *)
(***************************************************************************)
\* the example case of lines 777-793
ExampleData ==
    [k \in {"client_naam", "client_rol", "tegenpartij_naam", "tegenpartij_rol",
            "situatie_samenvatting", "doel_client", "vorderingen",
            "feitenrelaas", "bewijsstukken"} |->
        CASE k = "client_naam" -> JStr(<<"NV TechStart">>)
          [] k = "client_rol" -> JStr(<<"Opdrachtnemer/Dienstverlener">>)
          [] k = "tegenpartij_naam" -> JStr(<<"NV GlobalCorp">>)
          [] k = "tegenpartij_rol" -> JStr(<<"Opdrachtgever">>)
          [] k = "situatie_samenvatting" ->
                JStr(<<"GlobalCorp beeindigde eenzijdig een IT-ontwikkelingscontract ...">>)
          [] k = "doel_client" ->
                JStr(<<"Betaling verkrijgen van openstaande facturen ...">>)
          [] k = "vorderingen" ->
                JArr(<<JStr(<<"Terugbetaling voorschotten: 50.000">>),
                       JStr(<<"Schadevergoeding wegens wanprestatie: 200.000">>),
                       JStr(<<"Contractuele boete: 25.000">>)>>)
          [] k = "feitenrelaas" ->
                JStr(<<"Chronologie:", NL, "- 01/01/2024: Ondertekening contract ...">>)
          [] k = "bewijsstukken" ->
                JArr(<<JStr(<<"Ondertekend contract dd. 01/01/2024">>),
                       JStr(<<"Email correspondentie over scopewijzigingen">>),
                       JStr(<<"Projectdocumentatie en deliverables">>),
                       JStr(<<"Facturen voor verrichte werkzaamheden">>),
                       JStr(<<"Brief contractbeeindiging dd. 01/07/2024">>)>>)]

\* lines 776-796: example_data of a run of get_casus_input, and the session
\* with the flag load_example taken back
read_example(ss) ==
    IF Get(ss, "load_example", FALSE)
    THEN [example_data |-> ExampleData, ss |-> Put(ss, "load_example", FALSE)]
    ELSE [example_data |-> <<>>, ss |-> ss]

\* bool(value)
PyTruthy(v) == IF v.t = "obj" THEN DOMAIN v.v # {} ELSE v.v # <<>>

\* str(value), which text_input and text_area make of their value
RECURSIVE widget_text(_)
widget_text(v) ==
    IF v.t = "str" THEN v.v
    ELSE IF v.t = "arr"
    THEN <<"[">> \o Join(<<",", " ">>,
                         [i \in 1..Len(v.v) |->
                             IF v.v[i].t = "str" THEN <<"'">> \o v.v[i].v \o <<"'">>
                             ELSE widget_text(v.v[i])])
               \o <<"]">>
    ELSE <<"{", "...", "}">>

\* '\n'.join(value) of a list of texts or of a text
join_lines(v) ==
    IF v.t = "arr" THEN Join(<<NL>>, [i \in 1..Len(v.v) |-> v.v[i].v])
    ELSE Join(<<NL>>, [i \in 1..Len(v.v) |-> <<v.v[i]>>])

\* a casus_form that takes the extracted value before the example's
casus_form_extractor_first(example, ai, ss) ==
    LET text(k) == widget_text(Get(ai, <<k>>, Get(example, k, JStr(<<>>))))
        lines(k) ==
            LET d == Get(ai, <<k>>, JArr(<<>>))
            IN  IF ~PyTruthy(d) /\ k \in DOMAIN example /\ PyTruthy(example[k])
                THEN join_lines(example[k]) ELSE join_lines(d)
    IN  [client_naam |-> text("client_naam"),
         client_rol |-> text("client_rol"),
         tegenpartij_naam |-> text("tegenpartij_naam"),
         tegenpartij_rol |-> text("tegenpartij_rol"),
         situatie_samenvatting |-> text("situatie_samenvatting"),
         doel_client |-> widget_text(Get(example, "doel_client", JStr(<<>>))),
         vorderingen_text |-> lines("vorderingen"),
         feitenrelaas |->
             widget_text(Get(ai, <<"feiten_chronologie">>,
                             Get(example, "feitenrelaas", JStr(<<>>)))),
         bewijsstukken_text |-> lines("bewijsstukken"),
         include_ocr |-> Truthy(Get(ss, "ocr_text", <<>>))]

\* casus_form as it is drawn with its defaults (lines 857-936)
casus_form(example, ai, ss) ==
    LET text(k) == widget_text(Get(example, k, Get(ai, <<k>>, JStr(<<>>))))
        lines(k) ==
            LET d == Get(example, k, JArr(<<>>))
            IN  IF ~PyTruthy(d) /\ <<k>> \in DOMAIN ai /\ PyTruthy(ai[<<k>>])
                THEN join_lines(ai[<<k>>]) ELSE join_lines(d)
    IN  [client_naam |-> text("client_naam"),
         client_rol |-> text("client_rol"),
         tegenpartij_naam |-> text("tegenpartij_naam"),
         tegenpartij_rol |-> text("tegenpartij_rol"),
         situatie_samenvatting |-> text("situatie_samenvatting"),
         doel_client |-> widget_text(Get(example, "doel_client", JStr(<<>>))),
         vorderingen_text |-> lines("vorderingen"),
         feitenrelaas |->
             widget_text(Get(example, "feitenrelaas",
                             Get(ai, <<"feiten_chronologie">>, JStr(<<>>)))),
         bewijsstukken_text |-> lines("bewijsstukken"),
         include_ocr |-> Truthy(Get(ss, "ocr_text", <<>>))]

\* the ingestion has stored a text: the expander of line 799 is shown
InitExtract ==
    /\ PDF_SUPPORT = TRUE
    /\ session_state = Put(SessionInit, "ocr_text",
                           DocumentBlock(<<"b", ".", "PNG">>, <<"x">>))
    /\ IngestIdle
    /\ RunIdle
    /\ ExtractIdle
    /\ form = casus_form(<<>>, <<>>, session_state)
    /\ form_result = "none"
    /\ runs = 0
    /\ stub = 0
    /\ example_data = <<>>

\* the body of the try block (lines 841-850): session_state afterwards, or
\* an exception
analyse_try(call, ss) ==
    IF call.raise THEN [exc |-> TRUE, ss |-> ss]
    ELSE LET json_match == re_search(call.text) IN
         IF json_match.found
         THEN LET extracted_data == json_loads(json_match.match) IN
              IF extracted_data.exc THEN [exc |-> TRUE, ss |-> ss]
              ELSE [exc |-> FALSE,
                    ss |-> Put(ss, "ai_extracted_data", extracted_data.val)]
         ELSE [exc |-> FALSE, ss |-> ss]

\* lines 840-852: except Exception shows the error and goes on
analyse(call, ss) ==
    LET r == analyse_try(call, ss)
    IN  IF r.exc THEN [exc |-> FALSE, ss |-> r.ss, error |-> TRUE]
        ELSE [exc |-> FALSE, ss |-> r.ss, error |-> FALSE]

\* the button "Analyseer Documenten en Vul Formulier" (lines 799-852) in a
\* run of get_casus_input: when a mapping is stored, the form that follows
\* is drawn with the defaults it gives (lines 855-936)
Analyse(calls) ==
    /\ Truthy(Get(session_state, "ocr_text", <<>>))
    /\ attempts < MaxAttempts
    /\ ~extract_escaped
    /\ \E call \in calls :
          LET r == analyse(call, session_state) IN
          /\ last_attempt' = call
          /\ attempts' = attempts + 1
          /\ session_state' = r.ss
          /\ extract_escaped' = r.exc
          /\ IF r.ss # session_state
             THEN /\ form' = casus_form(<<>>, r.ss["ai_extracted_data"], r.ss)
                  /\ form_result' = "drawn"
             ELSE /\ form' = form
                  /\ form_result' = "none"
    /\ example_data' = <<>>
    /\ UNCHANGED <<PDF_SUPPORT, ingestVars, runVars, runs, stub>>

AnalyseDocuments == Analyse(ExtractCalls)

ExtractNext == AnalyseDocuments

SpecExtract == InitExtract /\ [][ExtractNext]_vars

\* line 855: the extractor output the form takes its defaults from
ai_data == Get(session_state, "ai_extracted_data", <<>>)

(***************************************************************************)
(* Readers of the latest attempt.                                          *)
(***************************************************************************)
Attempted == attempts > 0

\* the answer holds no "{" that a "}" follows
NoBraces == ~last_attempt.raise /\ ~re_search(last_attempt.text).found

\* the brace-delimited part of the answer is no JSON
ParseFails ==
    /\ ~last_attempt.raise
    /\ re_search(last_attempt.text).found
    /\ json_loads(re_search(last_attempt.text).match).exc

\* positions of the first "{" and the last "}" of a text
FirstOpen(text) == NextTok(text, "{", 1)
LastClose(text) ==
    LET closes == {i \in 1..Len(text) : text[i] = "}"}
    IN  IF closes = {} THEN 0 ELSE CHOOSE i \in closes : \A j \in closes : j <= i

\* the part the extractor parses is the one from the first "{" to the last "}"
SelectsFirstToLast ==
    LET text == last_attempt.text
        m == re_search(text)
    IN  m.found => m.match = SubSeq(text, FirstOpen(text), LastClose(text))

\* the session holds exactly the mapping of the object ms
Holds(ms) ==
    /\ "ai_extracted_data" \in DOMAIN session_state
    /\ DOMAIN session_state["ai_extracted_data"] = DOMAIN MappingOf(ms)
    /\ \A k \in DOMAIN MappingOf(ms) :
          session_state["ai_extracted_data"][k] = MappingOf(ms)[k]

\* no "{" in the prose before the object and no "}" in the prose after it
CleanProse ==
    /\ \A i \in 1..Len(last_attempt.pre) : last_attempt.pre[i] # "{"
    /\ \A i \in 1..Len(last_attempt.post) : last_attempt.post[i] # "}"

(***************************************************************************)
(* C9: after an attempt whose answer holds no brace-delimited part, or     *)
(* whose brace-delimited part fails to parse, nothing was raised and the   *)
(* mapping the form takes its defaults from is empty.                      *)
(***************************************************************************)
C9_EmptyAfterFailedAttempt ==
    (Attempted /\ (NoBraces \/ ParseFails))
        => (~extract_escaped /\ DOMAIN ai_data = {})

(***************************************************************************)
(* C10: the part parsed runs from the first "{" to the last "}" of the     *)
(* answer, and an answer that is one well-formed JSON object inside prose  *)
(* with no "{" before the object and no "}" after it leaves exactly the    *)
(* mapping of that object.                                                 *)
(***************************************************************************)
C10_ParsesCleanlyEmbedded ==
    Attempted =>
        /\ SelectsFirstToLast
        /\ \A ms \in last_attempt.object : CleanProse => Holds(ms)

\* an object with members, prose on both sides, a "}" before it
C10_Witness ==
    /\ Attempted
    /\ last_attempt.pre = <<"}">>
    /\ last_attempt.post = <<"p">>
    /\ \E ms \in last_attempt.object : Len(ms) = 2 /\ Holds(ms)

\* C10 as stated: any prose around the object
C10_ParsesEmbedded ==
    Attempted =>
        /\ SelectsFirstToLast
        /\ \A ms \in last_attempt.object : Holds(ms)

(***************************************************************************)
(* The form of get_casus_input (lines 857-966) and the flow of main()      *)
(* (lines 1161-1170).  What is typed into the form is one token per        *)
(* character.                                                              *)
(***************************************************************************)
WHITESPACE == {" ", NL, "\t"}

\* s.split(d)
RECURSIVE SplitOn(_, _)
SplitOn(s, d) ==
    LET hits == {p \in 1..Len(s) : OccursAt(s, d, p)}
    IN  IF hits = {} THEN <<s>>
        ELSE LET p == CHOOSE x \in hits : \A y \in hits : x <= y
             IN  <<SubSeq(s, 1, p - 1)>> \o SplitOn(SubSeq(s, p + Len(d), Len(s)), d)

\* s.strip()
Strip(s) ==
    LET keep == {i \in 1..Len(s) : s[i] \notin WHITESPACE}
    IN  IF keep = {} THEN <<>>
        ELSE SubSeq(s, CHOOSE i \in keep : \A j \in keep : i <= j,
                       CHOOSE i \in keep : \A j \in keep : j <= i)

\* [v for v in text.split('\n') if v.strip()]: the lines are not stripped
parse_lines_unstripped(text) ==
    SelectSeq(SplitOn(text, <<NL>>), LAMBDA v : Truthy(Strip(v)))

\* [v.strip() for v in text.split('\n') if v.strip()] (lines 947-948)
parse_lines(text) ==
    LET kept == SelectSeq(SplitOn(text, <<NL>>), LAMBDA v : Truthy(Strip(v)))
    IN  [i \in 1..Len(kept) |-> Strip(kept[i])]

GeenVorderingen == <<"Geen vorderingen gespecificeerd">>
GeenBewijsstukken == <<"Geen bewijsstukken gespecificeerd">>
OcrHeader == <<"\n\n=== GEEXTRAHEERDE DOCUMENTEN ===\n">>

\* a get_casus_input that builds the CasusInput before it validates
submit_form_unvalidated(f, ss) ==
    LET vorderingen == parse_lines(f.vorderingen_text)
        bewijsstukken == parse_lines(f.bewijsstukken_text)
        ocr_text == Get(ss, "ocr_text", <<>>)
        feitenrelaas ==
            IF f.include_ocr /\ Truthy(ocr_text)
            THEN f.feitenrelaas \o OcrHeader \o ocr_text
            ELSE f.feitenrelaas
    IN  [none |-> FALSE, error |-> FALSE,
         casus |-> [client_naam |-> f.client_naam,
                    client_rol |-> f.client_rol,
                    tegenpartij_naam |-> f.tegenpartij_naam,
                    tegenpartij_rol |-> f.tegenpartij_rol,
                    situatie_samenvatting |-> f.situatie_samenvatting,
                    doel_client |-> f.doel_client,
                    vorderingen |-> IF Truthy(vorderingen) THEN vorderingen
                                    ELSE <<GeenVorderingen>>,
                    feitenrelaas |-> feitenrelaas,
                    bewijsstukken |-> IF Truthy(bewijsstukken) THEN bewijsstukken
                                      ELSE <<GeenBewijsstukken>>]]

\* get_casus_input when the form is submitted (lines 940-964): None after
\* st.error, or the CasusInput
submit_form(f, ss) ==
    IF ~(Truthy(f.client_naam) /\ Truthy(f.tegenpartij_naam)
            /\ Truthy(f.situatie_samenvatting))
    THEN [none |-> TRUE, error |-> TRUE, casus |-> <<>>]
    ELSE
    LET vorderingen == parse_lines(f.vorderingen_text)
        bewijsstukken == parse_lines(f.bewijsstukken_text)
        ocr_text == Get(ss, "ocr_text", <<>>)
        feitenrelaas ==
            IF f.include_ocr /\ Truthy(ocr_text)
            THEN f.feitenrelaas \o OcrHeader \o ocr_text
            ELSE f.feitenrelaas
    IN  [none |-> FALSE, error |-> FALSE,
         casus |-> [client_naam |-> f.client_naam,
                    client_rol |-> f.client_rol,
                    tegenpartij_naam |-> f.tegenpartij_naam,
                    tegenpartij_rol |-> f.tegenpartij_rol,
                    situatie_samenvatting |-> f.situatie_samenvatting,
                    doel_client |-> f.doel_client,
                    vorderingen |-> IF Truthy(vorderingen) THEN vorderingen
                                    ELSE <<GeenVorderingen>>,
                    feitenrelaas |-> feitenrelaas,
                    bewijsstukken |-> IF Truthy(bewijsstukken) THEN bewijsstukken
                                      ELSE <<GeenBewijsstukken>>]]

\* main() with the form submitted (lines 1161-1167): the CasusInput, if one
\* is returned, goes to run_analysis
SubmitForm ==
    /\ rpc = "form"
    /\ ~session_state["analyses_completed"]
    /\ runs < MaxRuns
    /\ LET r == submit_form(form, session_state) IN
       IF r.none
       THEN /\ form_result' = "rejected"
            /\ UNCHANGED <<casus, rpc, locals, call_log, runs>>
       ELSE /\ form_result' = "built"
            /\ casus' = r.casus
            /\ rpc' = "agent1"
            /\ locals' = <<>>
            /\ call_log' = <<>>
            /\ runs' = runs + 1
    /\ example_data' = <<>>
    /\ UNCHANGED <<PDF_SUPPORT, session_state, ingestVars, extractVars,
                   clock, form, stub>>

\* what can be typed into the form
TextsOver(alphabet, n) == SeqsUpTo(alphabet, n)
NameTexts == {<<>>, <<" ">>, <<"a">>}
FormsTyped ==
    {[EmptyForm EXCEPT !.client_naam = n,
                       !.tegenpartij_naam = <<"b">>,
                       !.situatie_samenvatting = <<"s">>,
                       !.feitenrelaas = <<"f">>,
                       !.vorderingen_text = v,
                       !.bewijsstukken_text = b,
                       !.include_ocr = o] :
        n \in NameTexts,
        v \in TextsOver({"a", "b", " ", NL}, MaxText),
        b \in TextsOver({"c", NL}, MaxText),
        o \in BOOLEAN}

\* the form is shown and filled in, with or without an ingested text
InitForm ==
    /\ PDF_SUPPORT = TRUE
    /\ session_state \in {SessionInit,
                          Put(SessionInit, "ocr_text",
                              DocumentBlock(<<"b", ".", "PNG">>, <<"x">>))}
    /\ IngestIdle
    /\ RunIdle
    /\ ExtractIdle
    /\ form \in FormsTyped
    /\ form_result = "none"
    /\ runs = 0
    /\ stub = 0
    /\ example_data = <<>>

FormNext == SubmitForm

SpecForm == InitForm /\ [][FormNext]_vars

(***************************************************************************)
(* Readers of a submission.                                                *)
(***************************************************************************)
\* the text without the white space at its two ends
RECURSIVE Trimmed(_)
Trimmed(s) ==
    IF s = <<>> THEN s
    ELSE IF s[1] \in WHITESPACE THEN Trimmed(Tail(s))
    ELSE IF s[Len(s)] \in WHITESPACE THEN Trimmed(SubSeq(s, 1, Len(s) - 1))
    ELSE s

\* the lines of a text, cut at its line feeds
LinesOf(text) ==
    LET cuts == Ascending({0, Len(text) + 1} \cup {i \in 1..Len(text) : text[i] = NL})
    IN  [j \in 1..(Len(cuts) - 1) |-> SubSeq(text, cuts[j] + 1, cuts[j + 1] - 1)]

\* the non-blank lines of a text, trimmed, in the order they stand in it
NonBlankLines(text) ==
    LET lines == LinesOf(text)
        nonblank == Ascending({j \in 1..Len(lines) : Trimmed(lines[j]) # <<>>})
    IN  [k \in 1..Len(nonblank) |-> Trimmed(lines[nonblank[k]])]

Built == form_result = "built"

(***************************************************************************)
(* C11: a CasusInput built by a submission has non-empty vorderingen and   *)
(* bewijsstukken: the single "Geen ... gespecificeerd" entry when the text *)
(* area holds no non-blank line, else exactly the non-blank lines of the   *)
(* text area, stripped, in their order.                                    *)
(***************************************************************************)
C11_ListsNeverEmpty ==
    Built =>
        /\ casus.vorderingen # <<>> /\ casus.bewijsstukken # <<>>
        /\ casus.vorderingen =
              IF NonBlankLines(form.vorderingen_text) = <<>>
              THEN <<GeenVorderingen>>
              ELSE NonBlankLines(form.vorderingen_text)
        /\ casus.bewijsstukken =
              IF NonBlankLines(form.bewijsstukken_text) = <<>>
              THEN <<GeenBewijsstukken>>
              ELSE NonBlankLines(form.bewijsstukken_text)

\* two lines kept in their order, a blank-only text replaced by the sentinel
C11_Witness ==
    /\ Built
    /\ form.vorderingen_text = <<"b", NL, "a">>
    /\ casus.vorderingen = << <<"b">>, <<"a">> >>
    /\ form.bewijsstukken_text = <<NL, NL>>
    /\ casus.bewijsstukken = <<GeenBewijsstukken>>

(***************************************************************************)
(* The session around a run: the form is filled in and submitted, the run  *)
(* is made, the results are shown, "Nieuwe Analyse" starts over.           *)
(***************************************************************************)
\* lines 227-233: each of the three keys gets its default when it is missing
init_session_state(ss) ==
    [k \in DOMAIN ss \cup {"analyses_completed", "agent_outputs", "final_advice"} |->
        IF k \in DOMAIN ss THEN ss[k]
        ELSE IF k = "analyses_completed" THEN FALSE ELSE <<>>]

Del(d, ks) == [x \in DOMAIN d \ ks |-> d[x]]

\* a "Nieuwe Analyse" button that leaves analyses_completed in the session
nieuwe_analyse_keeps_flag(ss) ==
    init_session_state(
        Del(ss, {"agent_outputs", "final_advice", "casus_info", "timestamp"}))

\* the button "Nieuwe Analyse" (lines 1138-1142) and the rerun it asks for
nieuwe_analyse(ss) ==
    init_session_state(
        Del(ss, {"analyses_completed", "agent_outputs", "final_advice",
                 "casus_info", "timestamp"}))

\* display_results (lines 1069-1134): what it shows, or the exception of a
\* read of a missing entry
display_results(ss) ==
    IF ~({"final_advice", "agent_outputs", "casus_info", "timestamp"} \subseteq DOMAIN ss)
    THEN [exc |-> TRUE, shown |-> <<>>, txt_name |-> <<>>, json |-> <<>>]
    ELSE IF ~({"client_naam", "tegenpartij_naam"} \subseteq DOMAIN ss["casus_info"])
    THEN [exc |-> TRUE, shown |-> <<>>, txt_name |-> <<>>, json |-> <<>>]
    ELSE [exc |-> FALSE,
          shown |-> [k \in {"agent1", "agent2", "agent3", "agent4"} |->
                        Get(ss["agent_outputs"], k, <<"Geen output beschikbaar">>)],
          txt_name |-> <<"juridisch_advies_">> \o ss["timestamp"] \o <<".txt">>,
          json |-> [timestamp |-> ss["timestamp"],
                    casus_info |-> ss["casus_info"],
                    agent_outputs |-> ss["agent_outputs"],
                    final_advice |-> ss["final_advice"]]]

\* the forms of a session: each of the three required fields typed or not
FormsApp ==
    {[EmptyForm EXCEPT !.client_naam = n,
                       !.tegenpartij_naam = t,
                       !.situatie_samenvatting = sit,
                       !.vorderingen_text = <<"v", NL, "w">>] :
        n \in {<<>>, <<"a">>}, t \in {<<>>, <<"b">>}, sit \in {<<>>, <<"s">>}}

InitApp ==
    /\ PDF_SUPPORT = TRUE
    /\ session_state = SessionInit
    /\ IngestIdle
    /\ RunIdle
    /\ ExtractIdle
    /\ form \in FormsApp
    /\ form_result = "none"
    /\ runs = 0
    /\ stub = 0
    /\ example_data = <<>>

\* the user changes what the form holds
EditForm ==
    /\ rpc = "form"
    /\ ~session_state["analyses_completed"]
    /\ \E f \in FormsApp : f # form /\ form' = f
    /\ form_result' = "none"
    /\ UNCHANGED <<PDF_SUPPORT, session_state, ingestVars, runVars, extractVars,
                   runs, stub, example_data>>

\* a "Nieuwe Analyse" button that deletes every key of the session, as
\* "Reset Alles" does
NieuweAnalyse_deletes_all ==
    /\ session_state["analyses_completed"]
    /\ LET g == read_example(init_session_state(<<>>)) IN
       /\ session_state' = g.ss
       /\ example_data' = g.example_data
       /\ form' = casus_form(g.example_data,
                             Get(g.ss, "ai_extracted_data", <<>>), g.ss)
    /\ rpc' = "form"
    /\ casus' = <<>>
    /\ locals' = <<>>
    /\ call_log' = <<>>
    /\ form_result' = "drawn"
    /\ UNCHANGED <<PDF_SUPPORT, ingestVars, extractVars, clock, runs, stub>>

\* main() shows the results (lines 1168-1170); "Nieuwe Analyse" is pressed
\* and the rerun draws casus_form anew (lines 1161-1163): it has no
\* CasusInput and has made no call
NieuweAnalyse ==
    /\ session_state["analyses_completed"]
    /\ LET g == read_example(nieuwe_analyse(session_state)) IN
       /\ session_state' = g.ss
       /\ example_data' = g.example_data
       /\ form' = casus_form(g.example_data,
                             Get(g.ss, "ai_extracted_data", <<>>), g.ss)
    /\ rpc' = "form"
    /\ casus' = <<>>
    /\ locals' = <<>>
    /\ call_log' = <<>>
    /\ form_result' = "drawn"
    /\ UNCHANGED <<PDF_SUPPORT, ingestVars, extractVars, clock, runs, stub>>

AppNext ==
    \/ EditForm
    \/ SubmitForm
    \/ RunAgent1 \/ RunAgent2 \/ RunAgent3 \/ RunAgent4 \/ GenerateAdvice
    \/ NieuweAnalyse

SpecApp == InitApp /\ [][AppNext]_vars

(***************************************************************************)
(* Readers of the session.                                                 *)
(***************************************************************************)
RequiredMissing(f) ==
    f.client_naam = <<>> \/ f.tegenpartij_naam = <<>> \/ f.situatie_samenvatting = <<>>

RunState ==
    <<session_state["agent_outputs"], session_state["final_advice"],
      session_state["analyses_completed"]>>

InRun == rpc \in {"agent1", "agent2", "agent3", "agent4", "advice", "done"}

Completed == session_state["analyses_completed"]

(***************************************************************************)
(* C12: while one of client name, counterparty name and situation summary  *)
(* is empty in the form, a submission builds no CasusInput, issues no      *)
(* call and leaves agent outputs, advice and completed flag as they are;   *)
(* the CasusInput of every run has the three fields non-empty.             *)
(***************************************************************************)
C12_RequiredFields ==
    /\ [][(rpc = "form" /\ RequiredMissing(form) /\ form' = form) =>
            /\ rpc' = "form" /\ casus' = casus /\ call_log' = call_log
            /\ runs' = runs
            /\ RunState' = RunState]_vars
    /\ [](form_result = "rejected" => RequiredMissing(form) /\ rpc = "form")
    /\ []((InRun \/ call_log # <<>>) =>
            /\ casus.client_naam # <<>>
            /\ casus.tegenpartij_naam # <<>>
            /\ casus.situatie_samenvatting # <<>>)

\* a submission without the situation summary was turned down
C12_Witness ==
    /\ form_result = "rejected"
    /\ form.client_naam # <<>> /\ form.tegenpartij_naam # <<>>
    /\ form.situatie_samenvatting = <<>>
    /\ rpc = "form" /\ call_log = <<>> /\ casus = <<>>
    /\ ~Completed

(***************************************************************************)
(* C15: whenever analyses_completed is true the session holds the outputs  *)
(* of the four agents, the advice, the CasusInput of the run and a         *)
(* timestamp, and display_results reads no missing entry.                  *)
(***************************************************************************)
C15_CompletedRecordWhole ==
    Completed =>
        /\ {"agent_outputs", "final_advice", "casus_info", "timestamp"}
              \subseteq DOMAIN session_state
        /\ DOMAIN session_state["agent_outputs"] = {"agent1", "agent2", "agent3", "agent4"}
        /\ \A j \in 1..4 :
              session_state["agent_outputs"][StepOf[j]] = locals[OutputVar[j]]
        /\ session_state["casus_info"] = casus
        /\ session_state["timestamp"] # <<>>
        /\ ~display_results(session_state).exc
        /\ display_results(session_state).json.casus_info = casus

C15_Witness ==
    /\ Completed /\ rpc = "done" /\ runs = 1
    /\ form_result = "built"
    /\ Len(session_state["final_advice"]) = ShortLen
    /\ ~display_results(session_state).exc

(***************************************************************************)
(* The advice generator on its own: genereer_uitgebreid_advies is called   *)
(* on a case and four analyses, time passes, it is called again.  The      *)
(* generative service is a deterministic one: what it does is fixed by the *)
(* prompt it is given.                                                     *)
(***************************************************************************)
\* a number that a deterministic service makes of a prompt
Hash(prompt) ==
    LET count(d) == Cardinality({i \in 1..Len(prompt) : prompt[i] = DigitTok[d + 1]})
    IN  Len(prompt) + count(1) + 2 * count(2) + 3 * count(3) + 4 * count(4)
        + 5 * count(5) + 6 * count(6) + 7 * count(7) + 8 * count(8) + 9 * count(9)

\* what deterministic service sb does with a prompt of a stage
StubOutcome(sb, stage, prompt) ==
    LET h == (Hash(prompt) + sb) % 4
    IN  CASE h = 0 -> [kind |-> "text", text |-> AnswerText(stage, ShortLen)]
          [] h = 1 -> [kind |-> "text", text |-> AnswerText(stage, ShortLen + Extra)]
          [] h = 2 -> [kind |-> "raise", text |-> <<"b", "o", "o", "m">>]
          [] h = 3 -> [kind |-> "noparts", text |-> <<>>]

\* AdviesGenerator.genereer_uitgebreid_advies (lines 533-628)
genereer_uitgebreid_advies(c, all_analyses, timestamp, now, sb) ==
    LET user_prompt == Advies_prompt(c, all_analyses, timestamp, now)
        full_prompt == <<"System: ">> \o Advies_system \o <<"\n\nUser: ">> \o user_prompt
    IN  call_gemini(Advies_system, user_prompt, ADVANCED_MODEL,
                    StubOutcome(sb, 5, full_prompt))

\* the analyses of a finished run, as run_analysis hands them over
synthese_data_of(locs) ==
    [k \in {"synthese", "procedurele_kansen", "sterke_punten", "risicos"} |->
        CASE k = "synthese" -> locs["agent4_output"]
          [] k = "procedurele_kansen" -> locs["agent3_output"]
          [] k = "sterke_punten" -> locs["agent1_output"]
          [] k = "risicos" -> locs["agent2_output"]]

StageOutputSets ==
    {[v \in {"agent1_output", "agent2_output", "agent3_output", "agent4_output"} |->
        CASE v = "agent1_output" -> AnswerText(1, n)
          [] v = "agent2_output" -> AnswerText(2, ShortLen)
          [] v = "agent3_output" -> GeenResponse
          [] v = "agent4_output" -> AnswerText(4, ShortLen)] :
     n \in {ShortLen, CAP_SYNTH + Extra}}

InitCompose ==
    /\ PDF_SUPPORT = TRUE
    /\ session_state = SessionInit
    /\ IngestIdle
    /\ ExtractIdle
    /\ casus \in CasusSet
    /\ rpc = "advice"
    /\ locals \in StageOutputSets
    /\ call_log = <<>>
    /\ clock = 0
    /\ form = EmptyForm
    /\ form_result = "none"
    /\ runs = 0
    /\ stub \in 0..MaxStub
    /\ example_data = <<>>

\* the generator is called with the same case, analyses and timestamp
Compose ==
    /\ Len(call_log) < MaxComposes
    /\ LET timestamp == Stamp(0)
           r == genereer_uitgebreid_advies(casus, synthese_data_of(locals),
                                           timestamp, clock, stub)
       IN  call_log' = Append(call_log,
                [stage |-> 5, casus |-> casus, all_analyses |-> synthese_data_of(locals),
                 timestamp |-> timestamp, prompt |-> r.prompt, memo |-> r.val])
    /\ UNCHANGED <<PDF_SUPPORT, session_state, ingestVars, extractVars, appVars,
                   casus, rpc, locals, clock>>

\* datetime.now() moves on, by a tick or by a day
TimePasses ==
    /\ \E d \in {1, DayTicks} :
          /\ clock + d < (MaxDays + 1) * DayTicks
          /\ clock' = clock + d
    /\ UNCHANGED <<PDF_SUPPORT, session_state, ingestVars, extractVars, appVars,
                   casus, rpc, locals, call_log>>

ComposeNext == Compose \/ TimePasses

SpecCompose == InitCompose /\ [][ComposeNext]_vars

(***************************************************************************)
(* C13: two calls of the advice generator with the same case, the same     *)
(* analyses and the same date argument have the same prompt and, the       *)
(* service being deterministic, the same memo.                             *)
(***************************************************************************)
C13_ComposerIdempotent ==
    \A j, k \in 1..Len(call_log) :
        (/\ call_log[j].casus = call_log[k].casus
         /\ call_log[j].all_analyses = call_log[k].all_analyses
         /\ call_log[j].timestamp = call_log[k].timestamp)
        => /\ call_log[j].prompt = call_log[k].prompt
           /\ call_log[j].memo = call_log[k].memo

(***************************************************************************)
(* C14: the prompt of the advice generator and the prompt of agent 1 each  *)
(* hold every field of the CasusInput, and the former holds the four       *)
(* agent outputs, each after the label of its agent.                       *)
(***************************************************************************)
Embeds(pr, field) ==
    field = <<>> \/ \E p \in {q \in 1..Len(pr) : pr[q] = field[1]} : OccursAt(pr, field, p)

EmbedsCasus(pr, c) ==
    /\ Embeds(pr, c.client_naam) /\ Embeds(pr, c.client_rol)
    /\ Embeds(pr, c.tegenpartij_naam) /\ Embeds(pr, c.tegenpartij_rol)
    /\ Embeds(pr, c.situatie_samenvatting) /\ Embeds(pr, c.doel_client)
    /\ \A i \in 1..Len(c.vorderingen) : Embeds(pr, c.vorderingen[i])
    /\ Embeds(pr, c.feitenrelaas)
    /\ \A i \in 1..Len(c.bewijsstukken) : Embeds(pr, c.bewijsstukken[i])

C14_AllFieldsEmbedded ==
    /\ \A k \in CallsOf(1) : EmbedsCasus(call_log[k].prompt, casus)
    /\ \A k \in CallsOf(5) :
          LET pr == call_log[k].prompt IN
          /\ EmbedsCasus(pr, casus)
          /\ Between(pr, G_Agent1Label, G_Agent2Label) = FirstChars(locals["agent1_output"], 1500)
          /\ Between(pr, G_Agent2Label, G_Agent3Label) = FirstChars(locals["agent2_output"], 1500)
          /\ Between(pr, G_Agent3Label, G_Agent4Label) = FirstChars(locals["agent3_output"], 1500)
          /\ Between(pr, G_Agent4Label, G_Template) = FirstChars(locals["agent4_output"], 1500)

(***************************************************************************)
(* C16: the timestamp kept with a completed run is the time at which the   *)
(* call of the advice generator had returned.                              *)
(***************************************************************************)
StampTick(ts) == ParseNat(Tail(ts))

C16_StampedAtCompletion ==
    rpc = "done" =>
        /\ "timestamp" \in DOMAIN session_state
        /\ StampTick(session_state["timestamp"]) >= clock

(***************************************************************************)
(* C17: a visual extraction call that fails raises nothing to its caller   *)
(* and returns a text beginning with "ERROR:".                             *)
(***************************************************************************)
ErrorMarked(r) == ~r.exc /\ FirstChars(r.val, 6) = <<"E", "R", "R", "O", "R", ":">>

C17_VisualErrorMarker ==
    \A i \in 1..Len(env_log) :
        /\ (ImageRead(i) /\ env_log[i].pages[1].raise) =>
              ErrorMarked(extract_content_from_image(env_log[i].pages[1], uploaded_files[i]))
        /\ Rasterised(i) =>
              \A k \in 1..Len(env_log[i].pages) :
                  env_log[i].pages[k].raise =>
                      ErrorMarked(extract_content_from_image(env_log[i].pages[k],
                                                             PaginaSource(k)))
        /\ (DirectPdf(i) /\ env_log[i].direct.raise) =>
              ErrorMarked(extract_content_from_pdf_direct(env_log[i].direct))

(***************************************************************************)
(* C18: a file that is neither an image nor a PDF gets, in upload order    *)
(* among the blocks of the blob, a block whose content is the "Bestandstype*)
(* ... wordt niet ondersteund." message; no generative call is made for    *)
(* it, and the other files of the batch are processed as they are without  *)
(* it.                                                                     *)
(***************************************************************************)
Unsupported(i) == ~IsPdfName(uploaded_files[i]) /\ ~IsImageName(uploaded_files[i])

\* the generative calls the runtime was asked for on behalf of file i
CallsFor(i) ==
    IF Unsupported(i) THEN 0
    ELSE IF Rasterised(i) THEN Len(env_log[i].pages)
    ELSE IF ImageRead(i) \/ DirectPdf(i) THEN 1
    ELSE 0

\* file i has something to show: its text, or a message in place of it
HasBlock(i) ==
    \/ Unsupported(i)
    \/ YieldedUnits(i) # {}
    \/ DirectPdf(i) /\ env_log[i].direct.raise

RECURSIVE SumCalls(_)
SumCalls(n) == IF n = 0 THEN 0 ELSE SumCalls(n - 1) + CallsFor(n)

C18_UnsupportedUnit ==
    IngestDone =>
        /\ ~escaped /\ idx = NFiles /\ Len(env_log) = NFiles
        /\ vision_calls = SumCalls(NFiles)
        /\ LET shown == {i \in 1..NFiles : HasBlock(i)}
           IN  /\ Len(Blocks) = Cardinality(shown)
               /\ \E f \in [shown -> 1..Len(Blocks)] :
                     /\ Increasing(f)
                     /\ \A i \in shown :
                           /\ Blocks[f[i]].name = uploaded_files[i]
                           /\ Unsupported(i) =>
                                 StartsWith(Blocks[f[i]].body,
                                     NietOndersteund(LastSegment(Lower(uploaded_files[i])))
                                         \o <<NL>>)
                           /\ \A u \in YieldedUnits(i) : Contains(Blocks[f[i]].body, u)

\* an unsupported file between two files that were read
C18_Witness ==
    /\ IngestDone /\ NFiles = 3
    /\ Unsupported(2) /\ ~Unsupported(1) /\ ~Unsupported(3)
    /\ Len(Blocks) = 3
    /\ Blocks[2].body = NietOndersteund(<<"txt">>) \o <<NL, NL>>
    /\ vision_calls = 2

(***************************************************************************)
(* The per-document view of the ingested text (lines 757-764).             *)
(***************************************************************************)
\* the expanders of the tab "Per Document": title and text of each
preview_documents(extracted_content) ==
    LET documents == SplitOn(extracted_content, <<NL, SEP50, NL>>)
        rest == SubSeq(documents, 2, Len(documents))
        kept == SelectSeq(rest, LAMBDA doc : Truthy(Strip(doc)))
    IN  [j \in 1..Len(kept) |->
            [doc_name |-> SelectSeq(SplitOn(kept[j], <<NL>>)[1],
                                    LAMBDA t : t # "Document: "),
             doc |-> kept[j]]]

(***************************************************************************)
(* C19: split by the rule of the per-document view, a blob of n document   *)
(* blocks gives n segments, the i-th with the name and the content of the  *)
(* i-th block.                                                             *)
(***************************************************************************)
C19_PreviewRoundTrip ==
    IngestDone =>
        LET docs == preview_documents(Blob) IN
        /\ Len(docs) = Len(Blocks)
        /\ \A i \in 1..Len(Blocks) :
              /\ docs[i].doc_name = Blocks[i].name
              /\ Contains(docs[i].doc, Strip(Blocks[i].body))

(***************************************************************************)
(* The blocks of run_analysis as functions of what is in their scope: the  *)
(* CasusInput, the local variables assigned so far and the session state.  *)
(* They are run against a deterministic service, agent 3 at any moment     *)
(* before agent 4.                                                         *)
(***************************************************************************)
\* an agent block that leaves an entry agent_outputs already has
agent_block_keeps_entry(stage, key, var, system, user, model, locs, ss, sb) ==
    LET full_prompt == <<"System: ">> \o system \o <<"\n\nUser: ">> \o user
        oc == StubOutcome(sb, stage, full_prompt)
        r == call_gemini(system, user, model, oc)
    IN  [exc |-> r.exc, val |-> r.val, prompt |-> r.prompt, model |-> r.model,
         outcome |-> oc.kind,
         locals |-> IF r.exc THEN locs ELSE Put(locs, var, r.val),
         ss |-> IF r.exc \/ key \in DOMAIN ss["agent_outputs"] THEN ss
                ELSE Put(ss, "agent_outputs", Put(ss["agent_outputs"], key, r.val))]

\* an agent block: the call, the local variable, the entry of agent_outputs
agent_block(stage, key, var, system, user, model, locs, ss, sb) ==
    LET full_prompt == <<"System: ">> \o system \o <<"\n\nUser: ">> \o user
        oc == StubOutcome(sb, stage, full_prompt)
        r == call_gemini(system, user, model, oc)
    IN  [exc |-> r.exc, val |-> r.val, prompt |-> r.prompt, model |-> r.model,
         outcome |-> oc.kind,
         locals |-> IF r.exc THEN locs ELSE Put(locs, var, r.val),
         ss |-> IF r.exc THEN ss
                ELSE Put(ss, "agent_outputs", Put(ss["agent_outputs"], key, r.val))]

\* lines 979-992
agent1_block(c, locs, ss, sb) ==
    agent_block(1, "agent1", "agent1_output", Agent1_system, Agent1_prompt(c),
                LITE_MODEL, locs, ss, sb)

\* lines 994-1007
agent2_block(c, locs, ss, sb) ==
    agent_block(2, "agent2", "agent2_output", Agent2_system,
                Agent2_prompt(c, locs["agent1_output"]), LITE_MODEL, locs, ss, sb)

\* an agent 3 block that also hands over the analysis of agent 1 when the
\* session has one
agent3_block_reads_agent1(c, locs, ss, sb) ==
    agent_block(3, "agent3", "agent3_output", Agent3_system,
                Agent3_prompt(c)
                    \o Slice(Get(ss["agent_outputs"], "agent1", <<>>), CAP_AGENT2),
                LITE_MODEL, locs, ss, sb)

\* lines 1009-1022
agent3_block(c, locs, ss, sb) ==
    agent_block(3, "agent3", "agent3_output", Agent3_system, Agent3_prompt(c),
                LITE_MODEL, locs, ss, sb)

\* lines 1024-1037
agent4_block(c, locs, ss, sb) ==
    agent_block(4, "agent4", "agent4_output", Agent4_system,
                Agent4_prompt(c, locs["agent1_output"], locs["agent2_output"],
                              locs["agent3_output"]),
                ADVANCED_MODEL, locs, ss, sb)

\* lines 1039-1061
advice_block(c, locs, ss, now, sb) ==
    LET timestamp == Stamp(now)
        r == genereer_uitgebreid_advies(c, synthese_data_of(locs), timestamp, now, sb)
    IN  [exc |-> r.exc, val |-> r.val, prompt |-> r.prompt, model |-> r.model,
         outcome |-> IF FirstChars(r.val, Len(ErrorTag)) = ErrorTag THEN "failed" ELSE "text",
         locals |-> locs,
         ss |-> IF r.exc THEN ss
                ELSE Put(Put(Put(Put(ss, "final_advice", r.val),
                                 "casus_info", c),
                             "timestamp", timestamp),
                         "analyses_completed", TRUE)]

InitReorder ==
    /\ PDF_SUPPORT = TRUE
    /\ session_state = SessionInit
    /\ IngestIdle
    /\ ExtractIdle
    /\ casus \in CasusSet
    /\ rpc = "reorder"
    /\ locals = <<>>
    /\ call_log = <<>>
    /\ clock = 0
    /\ form = EmptyForm
    /\ form_result = "none"
    /\ runs = 1
    /\ stub \in 0..MaxStub
    /\ example_data = <<>>

\* a block is run: its call is logged and its results are kept
ReorderStep(stage, r, done) ==
    /\ call_log' = Append(call_log,
          [stage |-> stage, prompt |-> r.prompt, model |-> r.model,
           outcome |-> r.outcome, avail |-> DOMAIN locals])
    /\ clock' = clock + 1
    /\ locals' = r.locals
    /\ session_state' = r.ss
    /\ rpc' = IF r.exc THEN "stopped" ELSE IF done THEN "done" ELSE rpc
    /\ UNCHANGED <<PDF_SUPPORT, casus, ingestVars, extractVars, appVars>>

ReorderAgent1 ==
    /\ rpc = "reorder"
    /\ "agent1_output" \notin DOMAIN locals
    /\ ReorderStep(1, agent1_block(casus, locals, session_state, stub), FALSE)

ReorderAgent2 ==
    /\ rpc = "reorder"
    /\ "agent2_output" \notin DOMAIN locals
    /\ "agent1_output" \in DOMAIN locals
    /\ ReorderStep(2, agent2_block(casus, locals, session_state, stub), FALSE)

\* agent 3 before, between or after agents 1 and 2
ReorderAgent3 ==
    /\ rpc = "reorder"
    /\ "agent3_output" \notin DOMAIN locals
    /\ ReorderStep(3, agent3_block(casus, locals, session_state, stub), FALSE)

ReorderAgent4 ==
    /\ rpc = "reorder"
    /\ "agent4_output" \notin DOMAIN locals
    /\ {"agent1_output", "agent2_output", "agent3_output"} \subseteq DOMAIN locals
    /\ ReorderStep(4, agent4_block(casus, locals, session_state, stub), FALSE)

ReorderAdvice ==
    /\ rpc = "reorder"
    /\ "agent4_output" \in DOMAIN locals
    /\ ReorderStep(5, advice_block(casus, locals, session_state, clock, stub), TRUE)

ReorderNext ==
    ReorderAgent1 \/ ReorderAgent2 \/ ReorderAgent3 \/ ReorderAgent4 \/ ReorderAdvice

SpecReorder == InitReorder /\ [][ReorderNext]_vars

\* run_analysis in the order of its text: the results of its five blocks
SequentialRun(c, sb, start) ==
    LET s1 == agent1_block(c, <<>>, SessionInit, sb)
        s2 == agent2_block(c, s1.locals, s1.ss, sb)
        s3 == agent3_block(c, s2.locals, s2.ss, sb)
        s4 == agent4_block(c, s3.locals, s3.ss, sb)
        s5 == advice_block(c, s4.locals, s4.ss, start + 4, sb)
    IN  <<s1, s2, s3, s4, s5>>

(***************************************************************************)
(* C20: with a deterministic service, wherever agent 3 is run among agents *)
(* 1 and 2, every call has the prompt it has in the order 1, 2, 3, 4, the  *)
(* outputs kept are the same and so is the advice.                         *)
(***************************************************************************)
C20_Stage3Independent ==
    LET ref == SequentialRun(casus, stub, 0) IN
    /\ rpc # "stopped"
    /\ \A k \in 1..Len(call_log) :
          LET st == call_log[k].stage IN
          /\ call_log[k].prompt = ref[st].prompt
          /\ st <= 4 => /\ locals[OutputVar[st]] = ref[st].val
                        /\ session_state["agent_outputs"][StepOf[st]] = ref[st].val
    /\ rpc = "done" =>
          /\ session_state["final_advice"] = ref[5].val
          /\ session_state["agent_outputs"] = ref[5].ss["agent_outputs"]
          /\ session_state["analyses_completed"]

\* agent 3 was run first, its answer a text, and the run is complete
C20_Witness ==
    /\ rpc = "done" /\ Len(call_log) = 5
    /\ call_log[1].stage = 3 /\ call_log[1].outcome = "text"
    /\ call_log[2].stage = 1
    /\ locals["agent1_output"] # locals["agent3_output"]

(***************************************************************************)
(* How a PDF was handled in one iteration of the ingestion loop, read from *)
(* what the iteration did: the calls it made and the block it added.       *)
(***************************************************************************)
\* the iteration handled a PDF and went on to the next file
PdfStep ==
    /\ ipc = "loop" /\ idx' = idx + 1
    /\ IsPdfName(uploaded_files[idx + 1])

StepEnv == env_log'[Len(env_log')]
StepCalls == vision_calls' - vision_calls
StepAdded ==
    IF Len(all_content') > Len(all_content)
    THEN <<all_content'[Len(all_content')]>> ELSE <<>>

\* one call was made on the whole document and what came of it is the block
SubmittedWhole ==
    /\ StepCalls = 1
    /\ StepAdded =
          <<DocumentBlock(uploaded_files[idx + 1],
                IF StepEnv.direct.raise THEN PdfMislukt("e")
                ELSE Shown(StepEnv.direct, GeenContent))>>

\* one call was made per page and the block holds the pages that yielded text
PageByPage ==
    LET pages == StepEnv.pages
        yielded == Ascending({k \in 1..Len(pages) : ~pages[k].raise})
        sections == [j \in 1..Len(yielded) |->
                        PaginaSection(yielded[j], Shown(pages[yielded[j]], GeenTekst))]
    IN  /\ StepCalls = Len(pages)
        /\ StepAdded =
              IF sections = <<>> THEN <<>>
              ELSE <<DocumentBlock(uploaded_files[idx + 1], Join(<<NL>>, sections))>>

\* the rasteriser gave no page image for the document
NoPageImage == StepEnv.readable /\ StepEnv.pages = <<>>

LoadExample ==
    /\ rpc \in {"form", "done"}
    /\ LET flagged == Put(session_state, "load_example", TRUE) IN
       IF session_state["analyses_completed"]
       THEN /\ session_state' = flagged
            /\ UNCHANGED <<form, form_result, example_data>>
       ELSE LET g == read_example(flagged) IN
            /\ session_state' = g.ss
            /\ example_data' = g.example_data
            /\ form' = casus_form(g.example_data,
                                  Get(g.ss, "ai_extracted_data", <<>>), g.ss)
            /\ form_result' = "drawn"
    /\ UNCHANGED <<PDF_SUPPORT, ingestVars, runVars, extractVars, runs, stub>>

\* answers of the analysis in a session: an exception, or an object that
\* names the client and lists the claims
SessionCalls ==
    {[NoAttempt EXCEPT !.raise = TRUE]}
    \cup {[NoAttempt EXCEPT !.text = ObjectText(ms), !.object = {ms}] :
            ms \in {o \in Objects : Len(o) = 2 /\ o[1][1] = <<"client_naam">>}}

AnalyseInSession ==
    /\ rpc = "form"
    /\ ~session_state["analyses_completed"]
    /\ Analyse(SessionCalls)

\* what the user makes of a form by typing in it
Typed(f) ==
    {[f EXCEPT !.tegenpartij_naam = <<"b">>, !.situatie_samenvatting = <<"s">>],
     [f EXCEPT !.client_naam = <<"t", "2">>,
               !.tegenpartij_naam = <<"b">>, !.situatie_samenvatting = <<"s">>],
     [f EXCEPT !.include_ocr = ~f.include_ocr]}

TypeInForm ==
    /\ rpc = "form"
    /\ ~session_state["analyses_completed"]
    /\ \E f \in Typed(form) : f # form /\ form' = f
    /\ form_result' = "none"
    /\ UNCHANGED <<PDF_SUPPORT, session_state, ingestVars, runVars, extractVars,
                   runs, stub, example_data>>

\* a block of run_analysis with the deterministic service
StubStep(stage, r) ==
    /\ call_log' = Append(call_log,
          [stage |-> stage, prompt |-> r.prompt, model |-> r.model,
           outcome |-> r.outcome, avail |-> DOMAIN locals])
    /\ clock' = clock + 1
    /\ locals' = r.locals
    /\ session_state' = r.ss
    /\ rpc' = IF r.exc THEN "stopped" ELSE NextStep(rpc)
    /\ UNCHANGED <<PDF_SUPPORT, casus, ingestVars, extractVars, appVars>>

StubAgent1 ==
    /\ rpc = "agent1"
    /\ StubStep(1, agent1_block(casus, locals, session_state, stub))

StubAgent2 ==
    /\ rpc = "agent2"
    /\ StubStep(2, agent2_block(casus, locals, session_state, stub))

StubAgent3 ==
    /\ rpc = "agent3"
    /\ StubStep(3, agent3_block(casus, locals, session_state, stub))

StubAgent4 ==
    /\ rpc = "agent4"
    /\ StubStep(4, agent4_block(casus, locals, session_state, stub))

StubAdvice ==
    /\ rpc = "advice"
    /\ StubStep(5, advice_block(casus, locals, session_state, clock, stub))

\* run_analysis ends before line 1061: an exception in one of its blocks
\* reaches line 1065, st.stop() ends the script run, the next one shows the
\* form and has no CasusInput
AbortRun ==
    /\ rpc \in {"agent1", "agent2", "agent3", "agent4", "advice"}
    /\ rpc' = "form"
    /\ casus' = <<>>
    /\ locals' = <<>>
    /\ call_log' = <<>>
    /\ form_result' = "stopped"
    /\ UNCHANGED <<PDF_SUPPORT, session_state, ingestVars, extractVars, clock,
                   form, runs, stub, example_data>>

InitSession ==
    /\ PDF_SUPPORT = TRUE
    /\ session_state = Put(SessionInit, "ocr_text",
                           DocumentBlock(<<"b", ".", "PNG">>, <<"x">>))
    /\ IngestIdle
    /\ RunIdle
    /\ ExtractIdle
    /\ form = casus_form(<<>>, <<>>, session_state)
    /\ form_result = "drawn"
    /\ runs = 0
    /\ stub \in 0..MaxSessionStub
    /\ example_data = <<>>

SessionNext ==
    \/ LoadExample
    \/ AnalyseInSession
    \/ TypeInForm
    \/ SubmitForm
    \/ StubAgent1 \/ StubAgent2 \/ StubAgent3 \/ StubAgent4 \/ StubAdvice
    \/ AbortRun
    \/ NieuweAnalyse

SpecSession == InitSession /\ [][SessionNext]_vars

(***************************************************************************)
(* Readers of the form and of what it was offered.                         *)
(***************************************************************************)
ExampleOffered == DOMAIN example_data # {}

\* the form stands as the latest run of get_casus_input drew it
Drawn == form_result = "drawn"

\* the text the extracted mapping has under a key, if it has one
ExtractedText(key) ==
    IF <<key>> \in DOMAIN ai_data THEN ai_data[<<key>>].v ELSE <<>>

\* the entries the extracted mapping lists under a key, if it has one
ExtractedEntries(key) ==
    IF <<key>> \in DOMAIN ai_data
    THEN [i \in 1..Len(ai_data[<<key>>].v) |-> ai_data[<<key>>].v[i].v]
    ELSE <<>>

ExampleEntries(key) ==
    [i \in 1..Len(ExampleData[key].v) |-> ExampleData[key].v[i].v]

\* the CasusInput that the form, and the ingested text if the box is
\* ticked, stand for
CasusOfForm ==
    [client_naam |-> form.client_naam,
     client_rol |-> form.client_rol,
     tegenpartij_naam |-> form.tegenpartij_naam,
     tegenpartij_rol |-> form.tegenpartij_rol,
     situatie_samenvatting |-> form.situatie_samenvatting,
     doel_client |-> form.doel_client,
     vorderingen |-> IF NonBlankLines(form.vorderingen_text) = <<>>
                     THEN <<GeenVorderingen>>
                     ELSE NonBlankLines(form.vorderingen_text),
     feitenrelaas |-> IF form.include_ocr /\ Blob # <<>>
                      THEN form.feitenrelaas \o OcrHeader \o Blob
                      ELSE form.feitenrelaas,
     bewijsstukken |-> IF NonBlankLines(form.bewijsstukken_text) = <<>>
                       THEN <<GeenBewijsstukken>>
                       ELSE NonBlankLines(form.bewijsstukken_text)]

ResultKeys == {"agent_outputs", "final_advice", "casus_info", "timestamp"}

(***************************************************************************)
(* C22: whenever analyses_completed is true, the four agent outputs, the   *)
(* advice, the stored CasusInput and the timestamp in the session are      *)
(* those that the five blocks of run_analysis, run once from a session     *)
(* without results on the CasusInput submitted last, leave behind: nothing *)
(* of an earlier run, finished or stopped early, is among them.            *)
(***************************************************************************)
C22_ResultsOfOneRun ==
    Completed =>
        LET run == SequentialRun(casus, stub, clock - 5) IN
        /\ ResultKeys \subseteq DOMAIN session_state
        /\ \A k \in ResultKeys : session_state[k] = run[5].ss[k]
        /\ session_state["casus_info"] = casus
        /\ \A j \in 1..4 :
              /\ session_state["agent_outputs"][StepOf[j]] = run[j].val
              /\ locals[OutputVar[j]] = run[j].val
        /\ session_state["final_advice"] = run[5].val
        /\ session_state["timestamp"] = Stamp(clock - 1)

\* a first run was stopped after two of its blocks, the second run is
\* complete
C22_Witness ==
    /\ Completed /\ runs = 2 /\ clock = 7
    /\ Len(call_log) = 5
    /\ DOMAIN session_state["agent_outputs"] = {"agent1", "agent2", "agent3", "agent4"}
    /\ session_state["agent_outputs"]["agent1"] # session_state["agent_outputs"]["agent2"]

\* the keys that "Nieuwe Analyse" is to take away
RunKeys == ResultKeys \cup {"analyses_completed"}

\* the results were shown and no longer are
ResultsDismissed == Completed /\ ~Completed'

(***************************************************************************)
(* C24: "Nieuwe Analyse" takes the agent outputs, the advice, the stored   *)
(* CasusInput, the timestamp and the completed flag out of the session and *)
(* leaves the ingested text, the extracted mapping and every other entry   *)
(* as they are; the form drawn next has the box for the ingested text      *)
(* ticked when there is such a text and, the example not being loaded,     *)
(* holds the extracted values; a CasusInput built with the box ticked has  *)
(* the ingested text after its facts.                                       *)
(***************************************************************************)
C24_NieuweAnalyseKeepsDocuments ==
    /\ [][ResultsDismissed =>
            /\ \A k \in (DOMAIN session_state \cup DOMAIN session_state')
                            \ (RunKeys \cup {"load_example"}) :
                  /\ k \in DOMAIN session_state /\ k \in DOMAIN session_state'
                  /\ session_state'[k] = session_state[k]
            /\ "casus_info" \notin DOMAIN session_state'
            /\ "timestamp" \notin DOMAIN session_state'
            /\ session_state'["agent_outputs"] = <<>>
            /\ session_state'["final_advice"] = <<>>
            /\ Drawn'
            /\ form'.include_ocr = (Blob # <<>>)
            /\ ~ExampleOffered' =>
                  /\ form'.client_naam = ExtractedText("client_naam")
                  /\ NonBlankLines(form'.vorderingen_text)
                        = ExtractedEntries("vorderingen")]_vars
    /\ [](Built /\ form.include_ocr /\ Blob # <<>> =>
             casus.feitenrelaas = form.feitenrelaas \o OcrHeader \o Blob)

\* after a complete run and "Nieuwe Analyse" the next CasusInput has the
\* extracted client name, which no one typed, and the ingested text
C24_Witness ==
    /\ runs = 2 /\ clock = 5 /\ Built /\ rpc = "agent1"
    /\ ~ExampleOffered
    /\ ExtractedText("client_naam") = <<"B", " ", "}">>
    /\ casus.client_naam = <<"B", " ", "}">>
    /\ casus.vorderingen = ExtractedEntries("vorderingen")
    /\ form.include_ocr /\ Blob # <<>>
    /\ casus.feitenrelaas = OcrHeader \o Blob

====
